---- MODULE Spec2Model ----
(***************************************************************************)
(* A model of the job-board scraping pipeline of my-agentic-tools:         *)
(*   - PaginationHandler.scrape_with_infinite_scroll (the scroll loop),    *)
(*   - FirecrawlClient._scrape_with_retries and                            *)
(*     GeminiClient._generate_with_retries (the retry wrappers),           *)
(*   - DataCleaner.clean_companies / clean_jobs (the normalizer),          *)
(*   - YCJobScraper.scrape_search (the orchestrator).                      *)
(*                                                                         *)
(* Text is a sequence of one-character strings, so that strip, lower,      *)
(* prefix tests, slicing and substring counting are computed as the code   *)
(* computes them.                                                          *)
(***************************************************************************)
EXTENDS Integers, Sequences, FiniteSets, TLC

VARIABLES
    \* ---- PaginationHandler.scrape_with_infinite_scroll ----
    max_scrolls,                \* parameter
    content_check_interval,     \* parameter
    min_new_content_threshold,  \* parameter
    sc_pc,                      \* "start" | "loop" | "returned"
    result,                     \* the local `result`: Unbound or a fetch result
    sc_return,                  \* what the call returned (NotReturned before)
    last_content,
    last_length,
    no_change_count,            \* in units of 0.5 (the code adds 0.5 and 1)
    scroll_num,                 \* number of loop iterations entered
    initial_fetches,            \* calls of scrape_page
    scroll_fetches,             \* calls of scrape_with_scroll
    completed,                  \* number of fetches that returned a result
    sc_exit,                    \* which exit path was taken
    sc_same                     \* every scroll fetch so far returned the
                                \* initial content (history)

VARIABLES
    \* ---- FirecrawlClient._scrape_with_retries /
    \*      GeminiClient._generate_with_retries ----
    rw_kind,        \* "fetch" | "generate": which wrapper this call is
    max_retries,    \* self.max_retries
    base_delay,     \* self.scrape_delay (fetch), the literal 1 (generate)
    attempt,        \* the loop variable `attempt` of the next iteration
    last_error,     \* the local `last_error`
    rw_pc,          \* "running" | "returned" | "raised"
    rw_value,       \* the value returned
    rw_raised,      \* the error the terminal exception carries
    rw_log          \* gateway invocations and sleeps, in order (history)

VARIABLES
    \* ---- DataCleaner.clean_companies / clean_jobs ----
    cl_pc,          \* "idle" | "companies" | "jobs" | "..._done"
    companies_in,   \* the argument of clean_companies
    companies_out,  \* its return value
    jobs_in,        \* the argument of clean_jobs
    jobs_out        \* its return value

VARIABLES
    \* ---- YCJobScraper.scrape_search / _scrape_jobs_for_companies ----
    ss_op,          \* "search" | "from_url" | "company": the entry point
    ss_url,         \* the argument of scrape_from_url
    ss_slug,        \* the argument of scrape_company
    ss_params,      \* the SearchParams scrape_search runs with
    ss_pc,          \* "idle" | "url" | "start" | "jobs" | "returned"
    ss_content,     \* what the first page fetch brings
    ss_fetches,     \* history: page fetches issued
    ss_extractions, \* history: Extraction Gateway invocations
    ss_extracted,   \* the companies extract_companies returned
    include_jobs,   \* parameter
    max_companies,  \* parameter; 0 stands for None
    ss_companies,   \* `companies` after clean_companies
    ss_i,           \* position of the loop in `companies`
    all_jobs,       \* the list the loop extends
    ss_log,         \* history: how each iteration ended
    ss_return       \* the pair scrape_search returned

searchVars == <<ss_op, ss_url, ss_slug, ss_params, ss_pc, ss_content,
                ss_fetches, ss_extractions, ss_extracted, include_jobs,
                max_companies,
                ss_companies, ss_i, all_jobs, ss_log, ss_return>>

VARIABLES
    \* ---- URLBuilder.build_search_url / SearchParams.from_url ----
    ps_pc,          \* "idle" | "params" | "built" | "parsed"
    ps_params,      \* the SearchParams p
    ps_url,         \* build_search_url(p)
    ps_parsed       \* from_url of that url: <<params>>, or <<>> if it raised

paramsVars == <<ps_pc, ps_params, ps_url, ps_parsed>>

VARIABLES
    \* ---- DataCleaner: the record instances ----
    cl_heap,        \* the record instances, by identity 1, 2, ...
    cl_in_ids,      \* the input list: identities of its records
    cl_out_ids      \* the returned list: identities of its records

cleanVars == <<cl_pc, companies_in, companies_out, jobs_in, jobs_out,
               cl_heap, cl_in_ids, cl_out_ids>>

retryVars == <<rw_kind, max_retries, base_delay, attempt, last_error, rw_pc,
               rw_value, rw_raised, rw_log>>

scrollVars == <<max_scrolls, content_check_interval, min_new_content_threshold,
                sc_pc, result, sc_return, last_content, last_length,
                no_change_count, scroll_num, initial_fetches, scroll_fetches,
                completed, sc_exit, sc_same>>

VARIABLES
    \* ---- JobExtractor._parse_boolean ----
    pb_pc,          \* "idle" | "call" | "done"
    pb_value,       \* the argument
    pb_result       \* the returned bool

boolVars == <<pb_pc, pb_value, pb_result>>

VARIABLES
    \* ---- CompanyExtractor.extract_companies / JobExtractor.extract_jobs ----
    ex_pc,          \* "idle" | "companies" | "jobs" | "..._done"
    ex_response,    \* what the gateway call comes to
    ex_result       \* the returned list of records

extractVars == <<ex_pc, ex_response, ex_result>>

VARIABLES
    \* ---- AuthHandler ----
    session_cookie,             \* self.session_cookie
    current_user_agent_index,   \* self.current_user_agent_index
    yc_session_env,             \* the YC_SESSION_COOKIE environment variable
    ua_log                      \* history: the user agents handed out

authVars == <<session_cookie, current_user_agent_index, yc_session_env,
              ua_log>>

vars ==
    <<scrollVars, retryVars, cleanVars, searchVars, paramsVars, boolVars, extractVars, authVars>>

----------------------------------------------------------------------------
\* Bounds of the model.
MaxScrollsBound == 9
MaxIntervalBound == 7
MaxRetriesBound == 4
MaxDelayBound == 2
MaxRecords == 3
MaxCompanies == 3
MaxEntryCompanies == 1
MaxItems == 2
MaxCalls == 9

----------------------------------------------------------------------------
\* Text helpers.

UpperChars == <<"A","B","C","D","E","F","G","H","I","J","K","L","M",
                "N","O","P","Q","R","S","T","U","V","W","X","Y","Z">>
LowerChars == <<"a","b","c","d","e","f","g","h","i","j","k","l","m",
                "n","o","p","q","r","s","t","u","v","w","x","y","z">>

\* str.lower() on one character.
LowerChar(c) ==
    IF \E i \in 1..Len(UpperChars) : UpperChars[i] = c
    THEN LowerChars[CHOOSE i \in 1..Len(UpperChars) : UpperChars[i] = c]
    ELSE c

\* str.lower()
Lower(s) == [i \in 1..Len(s) |-> LowerChar(s[i])]

\* s[n:] for 0 <= n
DropFirst(s, n) == IF n >= Len(s) THEN <<>> ELSE SubSeq(s, n + 1, Len(s))

\* s.startswith(p)
StartsWith(s, p) == Len(s) >= Len(p) /\ SubSeq(s, 1, Len(p)) = p

\* str.count(sub) for a non-empty sub: non-overlapping occurrences, scanning
\* from the left.
RECURSIVE CountFrom(_, _, _)
CountFrom(s, sub, i) ==
    IF i + Len(sub) - 1 > Len(s) THEN 0
    ELSE IF SubSeq(s, i, i + Len(sub) - 1) = sub
         THEN 1 + CountFrom(s, sub, i + Len(sub))
         ELSE CountFrom(s, sub, i + 1)

Count(s, sub) == CountFrom(s, sub, 1)

RECURSIVE SumCounts(_, _, _)
SumCounts(s, subs, k) ==
    IF k > Len(subs) THEN 0
    ELSE Count(s, subs[k]) + SumCounts(s, subs, k + 1)

----------------------------------------------------------------------------
\* PaginationHandler._has_significant_new_content

job_indicators == <<
    <<"j","o","b">>,
    <<"p","o","s","i","t","i","o","n">>,
    <<"r","o","l","e">>,
    <<"h","i","r","i","n","g">>,
    <<"e","n","g","i","n","e","e","r">>,
    <<"d","e","v","e","l","o","p","e","r">>,
    <<"m","a","n","a","g","e","r">>,
    <<"d","e","s","i","g","n","e","r">>,
    <<"a","n","a","l","y","s","t">>,
    <<"s","p","e","c","i","a","l","i","s","t">>,
    <<"c","o","o","r","d","i","n","a","t","o","r">> >>

company_indicators == <<
    <<"c","o","m","p","a","n","y">>,
    <<"s","t","a","r","t","u","p">>,
    <<"f","o","u","n","d","e","d">>,
    <<"t","e","a","m"," ","s","i","z","e">>,
    <<"b","a","t","c","h">>,
    <<"i","n","d","u","s","t","r","y">> >>

\* indicator_count >= 3
MinIndicators == 3

indicator_count(new_part) ==
    SumCounts(Lower(new_part), job_indicators \o company_indicators, 1)

_has_significant_new_content_strict(old_content, new_content, min_threshold) ==
    IF Len(new_content) <= Len(old_content) THEN FALSE
    ELSE LET new_part == DropFirst(new_content, Len(old_content))
         IN  IF Len(new_part) <= min_threshold THEN FALSE
             ELSE indicator_count(new_part) >= MinIndicators

_has_significant_new_content(old_content, new_content, min_threshold) ==
    IF Len(new_content) <= Len(old_content) THEN FALSE
    ELSE LET new_part == DropFirst(new_content, Len(old_content))
         IN  IF Len(new_part) < min_threshold THEN FALSE
             ELSE indicator_count(new_part) >= MinIndicators

----------------------------------------------------------------------------
\* Pages the Fetch Gateway can render (the markdown of a fetch result).

PageEmpty == <<>>
PageBase  == <<"Y","C"," ","j","o","b","s">>
Listing   == <<" ","J","o","b"," ","r","o","l","e"," ","b","a","t","c","h">>
Filler    == <<".",".",".",".",".",".",".",".",".",".",".",".">>
Short     == <<" ","j","o","b">>
Dense     == <<"j","o","b","j","o","b","j","o","b">>

Pages == { PageEmpty,
           PageBase,
           PageBase \o Short,
           PageBase \o Filler,
           PageBase \o Dense,
           PageBase \o Listing,
           PageBase \o Listing \o Listing }

\* A fetch (scrape_page / scrape_with_scroll, both through the retry wrapper)
\* either raises after all retries or returns a result dict; its markdown is
\* a page, or None when the gateway's document carries markdown = None.
FetchOutcomes ==
    [raises : {TRUE}, md_none : {FALSE}, markdown : {PageEmpty}] \cup
    [raises : {FALSE}, md_none : {TRUE}, markdown : {PageEmpty}] \cup
    [raises : {FALSE}, md_none : {FALSE}, markdown : Pages]

\* A fetch result: `seq` numbers the fetches of this call that completed, in
\* order.  seq = 0 is the local `result` before its first assignment.
FetchResult(n, out) ==
    [seq |-> n, md_none |-> out.md_none, markdown |-> out.markdown]
Unbound == [seq |-> 0, md_none |-> FALSE, markdown |-> PageEmpty]

\* What the call hands back: nothing yet, the dict `{}`, or `result`.
NotReturned == [kind |-> "none", value |-> Unbound]
EmptyDict == [kind |-> "empty_dict", value |-> Unbound]
Returned(r) == [kind |-> "result", value |-> r]

\* The values of min_new_content_threshold the model draws from.
Thresholds == {0, Len(Short), Len(Listing)}

\* Thresholds of the length heuristic (lines 98, 105, 109, 113); the counter
\* is kept in halves, so 2 is 4 halves and 3 is 6 halves.
SmallDelta == 10
MinScrollsForStop == 5
CheckStopCount == 2
GrowthStopCount == 3


NoChangeAfterCheck_keep(count, significant) == count + 2

\* The counter after a check iteration (lines 84-94), in halves.
NoChangeAfterCheck(count, significant) ==
    IF significant THEN 0 ELSE count + 2

StopAfterCheck_never(count, significant) == FALSE

\* `if no_change_count >= 2: break` (line 98)
StopAfterCheck(count, significant) ==
    ~significant /\ count >= 2 * CheckStopCount

\* The counter after a non-check iteration (lines 103-106), in halves.
NoChangeAfterLength(count, length_increase, threshold) ==
    IF length_increase > threshold THEN 0
    ELSE IF length_increase < SmallDelta THEN count + 1
    ELSE count

MinimalGrowth_early(length_increase, n) == length_increase < SmallDelta

\* `if length_increase < 10 and scroll_num > 5` (line 109)
MinimalGrowth(length_increase, n) ==
    length_increase < SmallDelta /\ n > MinScrollsForStop

\* `if no_change_count >= 3: break` (line 113)
StopAfterGrowth(count) == count >= 2 * GrowthStopCount

ExceptReturn_always_empty(res) == EmptyDict

\* `return result if 'result' in locals() else {}` (line 126)
ExceptReturn(res) == IF res.seq = 0 THEN EmptyDict ELSE Returned(res)

InScrollRange_off_by_one(n, limit) == 1 <= n /\ n <= limit + 1

\* `for scroll_num in range(1, max_scrolls + 1)` (line 63): n is in the range
InScrollRange(n, limit) == 1 <= n /\ n <= limit

ScrollInit ==
    /\ max_scrolls \in 0..MaxScrollsBound
    /\ content_check_interval \in 1..MaxIntervalBound
    /\ min_new_content_threshold \in Thresholds
    /\ sc_pc = "start"
    /\ result = Unbound
    /\ sc_return = NotReturned
    /\ last_content = PageEmpty
    /\ last_length = 0
    /\ no_change_count = 0
    /\ scroll_num = 0
    /\ initial_fetches = 0
    /\ scroll_fetches = 0
    /\ completed = 0
    /\ sc_exit = "none"
    /\ sc_same = TRUE

\* Lines 46-61, and lines 120-126 when the loop body never runs.
InitialFetch(out) ==
    /\ sc_pc = "start"
    /\ initial_fetches' = initial_fetches + 1
    /\ UNCHANGED <<max_scrolls, content_check_interval,
                   min_new_content_threshold, scroll_num, scroll_fetches,
                   no_change_count, sc_same>>
    /\ IF out.raises
       THEN \* scrape_page raised: `result` is not in locals(), return {}
            /\ sc_pc' = "returned"
            /\ sc_return' = ExceptReturn(result)
            /\ sc_exit' = "initial_raised"
            /\ UNCHANGED <<result, completed, last_content, last_length>>
       ELSE LET r == FetchResult(completed + 1, out) IN
            /\ result' = r
            /\ completed' = completed + 1
            /\ IF out.md_none
               THEN \* len(None) raises TypeError: except returns result
                    /\ sc_pc' = "returned"
                    /\ sc_return' = ExceptReturn(r)
                    /\ sc_exit' = "error"
                    /\ UNCHANGED <<last_content, last_length>>
               ELSE IF Len(out.markdown) = 0
               THEN \* `if initial_length == 0: return result`
                    /\ sc_pc' = "returned"
                    /\ sc_return' = Returned(r)
                    /\ sc_exit' = "empty"
                    /\ UNCHANGED <<last_content, last_length>>
               ELSE /\ last_content' = out.markdown
                    /\ last_length' = Len(out.markdown)
                    /\ IF ~InScrollRange(1, max_scrolls)
                       THEN \* range(1, 1) is empty; line 120 reads the
                            \* unassigned current_content, the NameError is
                            \* caught and `result` is returned
                            /\ sc_pc' = "returned"
                            /\ sc_return' = ExceptReturn(r)
                            /\ sc_exit' = "completed"
                       ELSE /\ sc_pc' = "loop"
                            /\ sc_return' = NotReturned
                            /\ sc_exit' = "none"

\* One iteration of the for loop (lines 63-118) and, when it is the last
\* one or breaks, the return of lines 120-121; a raise inside it goes to
\* lines 123-126.
ScrollIteration(out) ==
    LET n == scroll_num + 1 IN
    /\ sc_pc = "loop"
    /\ InScrollRange(n, max_scrolls)
    /\ scroll_num' = n
    /\ scroll_fetches' = scroll_fetches + 1
    /\ UNCHANGED <<max_scrolls, content_check_interval,
                   min_new_content_threshold, initial_fetches>>
    /\ sc_same' = (sc_same /\ ~out.raises /\ ~out.md_none
                           /\ out.markdown = last_content)
    /\ IF out.raises
       THEN \* scrape_with_scroll raised: return the previous result
            /\ sc_pc' = "returned"
            /\ sc_return' = ExceptReturn(result)
            /\ sc_exit' = "scroll_raised"
            /\ UNCHANGED <<result, completed, last_content, last_length,
                           no_change_count>>
       ELSE LET r == FetchResult(completed + 1, out) IN
            /\ result' = r
            /\ completed' = completed + 1
            /\ IF out.md_none
               THEN \* len(None) raises TypeError: except returns result
                    /\ sc_pc' = "returned"
                    /\ sc_return' = ExceptReturn(r)
                    /\ sc_exit' = "error"
                    /\ UNCHANGED <<last_content, last_length,
                                   no_change_count>>
               ELSE
               LET current_content == out.markdown
                   current_length == Len(current_content)
                   length_increase == current_length - last_length
                   is_check == (n % content_check_interval) = 0
                   significant ==
                       _has_significant_new_content(
                           last_content, current_content,
                           min_new_content_threshold)
                   count1 ==
                       IF is_check
                       THEN NoChangeAfterCheck(no_change_count, significant)
                       ELSE NoChangeAfterLength(no_change_count,
                                length_increase, min_new_content_threshold)
                   break1 == is_check /\ StopAfterCheck(count1, significant)
                   minimal == ~break1 /\ MinimalGrowth(length_increase, n)
                   count2 == IF minimal THEN count1 + 2 ELSE count1
                   break2 == minimal /\ StopAfterGrowth(count2)
               IN
               /\ no_change_count' = count2
               /\ IF is_check /\ significant
                  THEN /\ last_content' = current_content
                       /\ last_length' = current_length
                  ELSE UNCHANGED <<last_content, last_length>>
               /\ IF break1 \/ break2
                  THEN /\ sc_pc' = "returned"
                       /\ sc_return' = Returned(r)
                       /\ sc_exit' = "stall"
                  ELSE IF ~InScrollRange(n + 1, max_scrolls)
                  THEN /\ sc_pc' = "returned"
                       /\ sc_return' = Returned(r)
                       /\ sc_exit' = "completed"
                  ELSE /\ sc_pc' = "loop"
                       /\ sc_return' = NotReturned
                       /\ sc_exit' = "none"

ScrollNext ==
    \/ \E out \in FetchOutcomes : InitialFetch(out)
    \/ \E out \in FetchOutcomes : ScrollIteration(out)

----------------------------------------------------------------------------
\* The retry wrappers.

\* str.strip(): whitespace removed at both ends.
Whitespace == {" ", "\t", "\n"}

RECURSIVE LStrip(_)
LStrip(s) ==
    IF s # <<>> /\ Head(s) \in Whitespace THEN LStrip(Tail(s)) ELSE s

RECURSIVE RStrip(_)
RStrip(s) ==
    IF s # <<>> /\ s[Len(s)] \in Whitespace
    THEN RStrip(SubSeq(s, 1, Len(s) - 1)) ELSE s

Strip(s) == RStrip(LStrip(s))

\* What one call of app.scrape can produce: an exception, nothing, an object
\* with `data` and `success` attributes (the "v2" envelope), a Document-like
\* object with attributes but no data/success pair, or a legacy dict whose
\* "success" key is true, false or missing.
\* The keys of the dict the wrapper builds from an object's attributes.
NormalizedFields == {"success", "markdown", "html", "metadata"}

\* The keys a legacy dict with a true "success" may come with: the four of
\* the normalized form, the content nested under "data", one format only.
LegacyKeySamples ==
    { NormalizedFields, {"success", "data"}, {"success", "markdown"} }

\* keys: the keys of a dict response (none for the other shapes).  An object
\* without the data/success pair may still have a success attribute.
ScrapeResponses ==
    [shape : {"raise", "none"}, success : {"absent"}, keys : {{}}] \cup
    [shape : {"document"}, success : {"absent", "true", "false"},
     keys : {{}}] \cup
    [shape : {"envelope"}, success : {"true", "false"}, keys : {{}}] \cup
    [shape : {"dict"}, success : {"true"}, keys : LegacyKeySamples] \cup
    [shape : {"dict"}, success : {"false"}, keys : {{"success", "error"}}]
    \cup
    [shape : {"dict"}, success : {"absent"}, keys : {{"markdown"}}]

\* What one call of model.generate_content can produce: an exception (also
\* when reading response.text raises) or a response with a text.
TextJson == <<"[", "]">>
Texts == { <<>>, <<" ">>, TextJson, <<" ">> \o TextJson \o <<"\n">> }
GenerateResponses ==
    [shape : {"raise"}, text : {<<>>}] \cup [shape : {"text"}, text : Texts]

\* `time.sleep(1 * (attempt + 1))` (gemini_client.py line 261)
GeminiBaseDelay == 1

NoError == [attempt |-> 0, cause |-> "none"]
NoValue ==
    [attempt |-> 0, form |-> "none", text |-> <<>>, fields |-> {}]

\* The branch of lines 137-169 that returns: "normalized" for the dict built
\* from an object's attributes, "legacy" for a dict returned as it came,
\* "none" when the attempt counts as failed.
ScrapeReturnForm(resp) ==
    IF resp.shape = "raise" THEN "none"
    ELSE IF resp.shape = "envelope"
         THEN (IF resp.success = "true" THEN "normalized" ELSE "none")
    ELSE IF resp.shape = "document" THEN "normalized"
    ELSE IF resp.shape = "dict" /\ resp.success = "true" THEN "legacy"
    ELSE "none"

\* The keys of the dict a returning branch returns: the four keys of the
\* dict built at lines 141-146 and 155-160; for a legacy dict, `return
\* result` (line 165), the keys it came with.
ScrapeReturnFields(resp) ==
    IF ScrapeReturnForm(resp) = "normalized" THEN NormalizedFields
    ELSE IF ScrapeReturnForm(resp) = "legacy" THEN resp.keys
    ELSE {}

\* The error an iteration stores in last_error (lines 150, 169, 173).
ScrapeErrorCause(resp) ==
    IF resp.shape = "raise" THEN "exception"
    ELSE IF resp.shape = "none" THEN "No result returned"
    ELSE "Firecrawl scrape failed"

\* `if response.text: return response.text.strip()` (lines 251-252)
GenerateReturns(resp) == resp.shape = "text" /\ resp.text # <<>>

GenerateErrorCause(resp) ==
    IF resp.shape = "raise" THEN "exception"
    ELSE "Empty response from Gemini"

InRetryRange_off_by_one(a, limit) == 0 <= a /\ a <= limit

\* `for attempt in range(self.max_retries)`
InRetryRange(a, limit) == 0 <= a /\ a < limit

\* `if attempt < self.max_retries - 1` (firecrawl line 176, gemini line 260)
SleepsAfter(a, limit) == a < limit - 1

Backoff_exponential(delay, a) == delay * (2 ^ a)

\* `self.scrape_delay * (attempt + 1)` / `1 * (attempt + 1)`
Backoff(delay, a) == delay * (a + 1)

StoreError_keep_first(old, new) == IF old.attempt = 0 THEN new ELSE old

\* `last_error = ...` : the newest error replaces the stored one.
StoreError(old, new) == new

\* The success flag a response carries, and whether its text is empty.
SuccessFlag(resp) ==
    IF "success" \in DOMAIN resp THEN resp.success ELSE "absent"
EmptyText(resp) == resp.shape = "text" /\ resp.text = <<>>

\* History entries: the k-th gateway invocation with the shape of what it
\* produced and whether the wrapper went on, and a sleep of d seconds.
CallEvent(k, resp, ok) == [ev |-> "call", attempt |-> k, failed |-> ~ok,
                           shape |-> resp.shape, delay |-> 0,
                           success |-> SuccessFlag(resp),
                           empty |-> EmptyText(resp)]
SleepEvent(k, d) == [ev |-> "sleep", attempt |-> k, failed |-> FALSE,
                     shape |-> "sleep", delay |-> d,
                     success |-> "absent", empty |-> FALSE]

RetryInit ==
    /\ rw_kind \in {"fetch", "generate"}
    /\ max_retries \in 1..MaxRetriesBound
    /\ base_delay \in (IF rw_kind = "fetch" THEN 1..MaxDelayBound
                       ELSE {GeminiBaseDelay})
    /\ attempt = 0
    /\ last_error = NoError
    /\ rw_pc = "running"
    /\ rw_value = NoValue
    /\ rw_raised = NoError
    /\ rw_log = <<>>

\* One iteration of the retry loop, given what the gateway did and how the
\* wrapper classifies it (ok) into a returned value or a stored error; after
\* the last failing iteration the terminal exception of the lines after the
\* loop is raised with last_error.
RetryIteration(resp, ok, value, err) ==
    /\ rw_pc = "running"
    /\ InRetryRange(attempt, max_retries)
    /\ UNCHANGED <<rw_kind, max_retries, base_delay>>
    /\ IF ok
       THEN /\ rw_pc' = "returned"
            /\ rw_value' = value
            /\ rw_log' = Append(rw_log, CallEvent(attempt + 1, resp, TRUE))
            /\ UNCHANGED <<attempt, last_error, rw_raised>>
       ELSE LET e == StoreError(last_error, err)
                called == Append(rw_log, CallEvent(attempt + 1, resp, FALSE))
            IN
            /\ last_error' = e
            /\ attempt' = attempt + 1
            /\ rw_log' = IF SleepsAfter(attempt, max_retries)
                         THEN Append(called,
                                SleepEvent(attempt + 1,
                                           Backoff(base_delay, attempt)))
                         ELSE called
            /\ rw_value' = rw_value
            /\ IF InRetryRange(attempt + 1, max_retries)
               THEN /\ rw_pc' = "running"
                    /\ rw_raised' = rw_raised
               ELSE /\ rw_pc' = "raised"
                    /\ rw_raised' = e

\* FirecrawlClient._scrape_with_retries, lines 113-182
ScrapeAttempt(resp) ==
    /\ rw_kind = "fetch"
    /\ RetryIteration(resp,
          ScrapeReturnForm(resp) # "none",
          [attempt |-> attempt + 1, form |-> ScrapeReturnForm(resp),
           text |-> <<>>, fields |-> ScrapeReturnFields(resp)],
          [attempt |-> attempt + 1, cause |-> ScrapeErrorCause(resp)])

\* GeminiClient._generate_with_retries, lines 244-263
GenerateAttempt(resp) ==
    /\ rw_kind = "generate"
    /\ RetryIteration(resp,
          GenerateReturns(resp),
          [attempt |-> attempt + 1, form |-> "text",
           text |-> Strip(resp.text), fields |-> {}],
          [attempt |-> attempt + 1, cause |-> GenerateErrorCause(resp)])

RetryNext ==
    \/ \E resp \in ScrapeResponses : ScrapeAttempt(resp)
    \/ \E resp \in GenerateResponses : GenerateAttempt(resp)

----------------------------------------------------------------------------
\* The normalizer (DataCleaner).

\* Python's None for an Optional[str] field; never equal to a text, whose
\* elements are single characters.
None == <<"None">>

\* Truthiness of an Optional[str]: `if data.get(field)`, `if not text`.
Truthy(x) == x # None /\ x # <<>>

\* re.sub(r'\s+', ' ', text)
RECURSIVE CollapseWhitespace(_)
CollapseWhitespace(s) ==
    IF s = <<>> THEN <<>>
    ELSE IF Head(s) \in Whitespace
         THEN <<" ">> \o CollapseWhitespace(LStrip(s))
         ELSE <<Head(s)>> \o CollapseWhitespace(Tail(s))

\* placeholder_patterns, matched with re.IGNORECASE against the whole text
placeholders == {
    <<"n","a">>, <<"n","/","a">>,
    <<"n","u","l","l">>,
    <<"n","o","n","e">>,
    <<"n","o","t"," ","s","p","e","c","i","f","i","e","d">>,
    <<"t","b","d">>,
    <<"-">> }

\* DataCleaner._clean_text
_clean_text(text) ==
    IF ~Truthy(text) THEN None
    ELSE LET t == CollapseWhitespace(Strip(text)) IN
         IF Lower(Strip(t)) \in placeholders THEN None
         ELSE IF t # <<>> THEN t ELSE None

Http  == <<"h","t","t","p",":","/","/">>
Https == <<"h","t","t","p","s",":","/","/">>
Www   == <<"w","w","w",".">>

\* `len(url) < 10`
MinUrlLen == 10

\* _clean_url without its checks: the stripped text.
_clean_url_unchecked(url) ==
    IF ~Truthy(url) THEN None ELSE Strip(url)

\* DataCleaner._clean_url
_clean_url(url) ==
    IF ~Truthy(url) THEN None
    ELSE LET u == Strip(url)
             fixed ==
                 IF StartsWith(u, Http) \/ StartsWith(u, Https) THEN u
                 ELSE IF StartsWith(u, <<"/","/">>)
                      THEN <<"h","t","t","p","s",":">> \o u
                 ELSE IF StartsWith(u, Www) THEN Https \o u
                 ELSE None
         IN  IF fixed = None THEN None
             ELSE IF Len(fixed) < MinUrlLen
                     \/ \E i \in 1..Len(fixed) : fixed[i] = " "
                  THEN None
             ELSE fixed

\* `cleaned if cleaned else None` for a field that is cleaned only when set
CleanedIfSet(x, cleaned) == IF Truthy(x) THEN cleaned ELSE x

\* DataCleaner._clean_company: <<>> for None, else <<the new Company>>.
_clean_company(company) ==
    IF ~Truthy(company.name) THEN <<>>
    ELSE IF _clean_text(company.name) = None THEN <<>>
    ELSE << [ name |-> _clean_text(company.name),
              description |->
                  CleanedIfSet(company.description,
                               _clean_text(company.description)),
              industry |->
                  CleanedIfSet(company.industry,
                               _clean_text(company.industry)),
              team_size |->
                  CleanedIfSet(company.team_size,
                               _clean_text(company.team_size)),
              url |-> CleanedIfSet(company.url, _clean_url(company.url)),
              yc_profile_url |->
                  CleanedIfSet(company.yc_profile_url,
                               _clean_url(company.yc_profile_url)),
              jobs_url |->
                  CleanedIfSet(company.jobs_url,
                               _clean_url(company.jobs_url)),
              logo_url |->
                  CleanedIfSet(company.logo_url,
                               _clean_url(company.logo_url)),
              job_count |-> IF company.job_count < 0 THEN 0
                            ELSE company.job_count,
              founded_year |-> company.founded_year ] >>

\* `name_key = company.name.lower().strip()`
name_key(company) == Strip(Lower(company.name))

\* `company.yc_profile_url and company.yc_profile_url in seen_urls`
SeenUrl(company, seen_urls) ==
    Truthy(company.yc_profile_url) /\ company.yc_profile_url \in seen_urls

\* The loop of clean_companies from index i on.
RECURSIVE CleanCompaniesFrom(_, _, _, _, _)
CleanCompaniesFrom(companies, i, cleaned, seen_names, seen_urls) ==
    IF i > Len(companies) THEN cleaned
    ELSE LET company == companies[i]
             cleaned_company == _clean_company(company)
         IN
         IF name_key(company) \in seen_names
         THEN CleanCompaniesFrom(companies, i + 1, cleaned,
                                 seen_names, seen_urls)
         ELSE IF SeenUrl(company, seen_urls)
         THEN CleanCompaniesFrom(companies, i + 1, cleaned,
                                 seen_names, seen_urls)
         ELSE IF cleaned_company = <<>>
         THEN CleanCompaniesFrom(companies, i + 1, cleaned,
                                 seen_names, seen_urls)
         ELSE CleanCompaniesFrom(companies, i + 1,
                  cleaned \o cleaned_company,
                  seen_names \cup {name_key(company)},
                  IF Truthy(cleaned_company[1].yc_profile_url)
                  THEN seen_urls \cup {cleaned_company[1].yc_profile_url}
                  ELSE seen_urls)

\* DataCleaner.clean_companies
clean_companies(companies) == CleanCompaniesFrom(companies, 1, <<>>, {}, {})

\* DataCleaner._clean_job: <<>> for None, else <<the new Job>>.
_clean_job(job) ==
    IF ~Truthy(job.title) \/ ~Truthy(job.company_name) THEN <<>>
    ELSE IF _clean_text(job.title) = None
            \/ _clean_text(job.company_name) = None THEN <<>>
    ELSE << [ title |-> _clean_text(job.title),
              company_name |-> _clean_text(job.company_name),
              company_description |->
                  CleanedIfSet(job.company_description,
                               _clean_text(job.company_description)),
              company_industry |->
                  CleanedIfSet(job.company_industry,
                               _clean_text(job.company_industry)),
              company_size |->
                  CleanedIfSet(job.company_size,
                               _clean_text(job.company_size)),
              application_url |->
                  CleanedIfSet(job.application_url,
                               _clean_url(job.application_url)),
              company_url |->
                  CleanedIfSet(job.company_url,
                               _clean_url(job.company_url)) ] >>

\* job_key = f"{job.company_name.lower().strip()}:{job.title.lower().strip()}"
job_key(job) ==
    Strip(Lower(job.company_name)) \o <<":">> \o Strip(Lower(job.title))

\* The loop of clean_jobs from index i on.
RECURSIVE CleanJobsFrom(_, _, _, _)
CleanJobsFrom(jobs, i, cleaned, seen_jobs) ==
    IF i > Len(jobs) THEN cleaned
    ELSE LET job == jobs[i]
             cleaned_job == _clean_job(job)
         IN
         IF job_key(job) \in seen_jobs
         THEN CleanJobsFrom(jobs, i + 1, cleaned, seen_jobs)
         ELSE IF cleaned_job = <<>>
         THEN CleanJobsFrom(jobs, i + 1, cleaned, seen_jobs)
         ELSE CleanJobsFrom(jobs, i + 1, cleaned \o cleaned_job,
                            seen_jobs \cup {job_key(job)})

\* DataCleaner.clean_jobs
clean_jobs(jobs) == CleanJobsFrom(jobs, 1, <<>>, {})

\* Company(...) / Job(...) as the pydantic models build them: every str field
\* is stripped (str_strip_whitespace), absent Optional fields are None.  An
\* Optional[int] is <<>> for None and <<n>> for the integer n.
Company(name, yc_profile_url, url) ==
    [ name |-> Strip(name), description |-> None, industry |-> None,
      team_size |-> None, url |-> url,
      yc_profile_url |->
          IF yc_profile_url = None THEN None ELSE Strip(yc_profile_url),
      jobs_url |-> None, logo_url |-> None, job_count |-> 0,
      founded_year |-> <<>> ]

Job(title, company_name) ==
    [ title |-> Strip(title), company_name |-> Strip(company_name),
      company_description |-> None, company_industry |-> None,
      company_size |-> None, application_url |-> None,
      company_url |-> None ]

\* Sample field values.
NameAB   == <<"A"," ","b">>
NameAB2  == <<"A"," "," ","b">>
NameABlc == <<"a"," ","b">>
NameCd   == <<"C","d">>
NameNA   == <<"N","/","A">>
UrlT     == <<"h","t","t","p",":","/","/","t",".","c","o","/">>
YcA      == <<"h","t","t","p","s",":","/","/","y",".","c","o","/","a">>
YcA2     == <<"/","/","y",".","c","o","/","a">>
YcB      == <<"h","t","t","p","s",":","/","/","y",".","c","o","/","b">>

UrlWww     == <<"w","w","w",".","y",".","c","o">>
UrlSlashes == <<"/","/","y",".","c","o","/","j">>
UrlBare    == <<"y",".","c","o","/","l",".","p","n","g">>
UrlShort   == <<"/","/","a">>
UrlSpace   == <<"h","t","t","p",":","/","/","y",".","c","o","/","a"," ","b">>
UrlFtp     == <<"f","t","p",":","/","/","y",".","c","o","/","f","i","l","e">>
UrlHttpA   == <<"h","t","t","p",":","/","/","a">>
NameKl     == <<"K","l">>
NameMn     == <<"M","n">>

\* Companies whose names and profile urls coincide raw or only once
\* cleaned; companies whose url fields lack a scheme, start with www. or
\* with //, are short or hold a space; a negative job count and founding
\* years inside and outside 1800..2030.
CompanySamples ==
    { Company(n, y, UrlT) : n \in {NameAB, NameAB2, NameCd},
                            y \in {None, YcA, YcA2} }
    \cup { Company(NameABlc, YcB, None),
           Company(NameNA, YcA, None),
           Company(NameCd, None, None),
           [ Company(NameKl, UrlWww, UrlT) EXCEPT
               !.jobs_url = UrlSlashes, !.logo_url = UrlBare,
               !.founded_year = <<1999>> ],
           [ Company(NameMn, UrlShort, None) EXCEPT
               !.jobs_url = UrlSpace, !.logo_url = UrlFtp,
               !.job_count = 0 - 1, !.founded_year = <<1500>> ] }

JobSamples ==
    { Job(<<"c">>, <<"a",":","b">>),
      Job(<<"b",":","c">>, <<"a">>),
      Job(<<"B">>, <<"A">>),
      Job(<<"b">>, <<"a">>),
      Job(<<"B"," "," ","c">>, <<"A">>),
      Job(NameNA, <<"A">>),
      [ Job(<<"d">>, <<"a">>) EXCEPT
          !.application_url = UrlWww, !.company_url = UrlBare ],
      [ Job(<<"e">>, <<"a">>) EXCEPT
          !.application_url = UrlSlashes, !.company_url = UrlSpace ],
      [ Job(<<"f">>, <<"a">>) EXCEPT
          !.application_url = UrlHttpA, !.company_url = UrlT ] }

\* Lists of at most n elements of S.
ListsUpTo(S, n) == UNION { [1..k -> S] : k \in 0..n }

\* The identities 1..n of the n records of a list, in list order.
IdsOf(records) == [k \in 1..Len(records) |-> k]

\* The identities of n instances taken from the input ones.
InstanceIds_reused(heap, n) == [k \in 1..n |-> k]

\* `Company(**data)` / `Job(**data)`: each of the n cleaned records is a new
\* instance, with an identity no instance of the heap has.
InstanceIds(heap, n) == [k \in 1..n |-> Len(heap) + k]

\* The heap once the records are written to the instances ids: `data` is
\* the dict model_dump() made, all cleaning assigns to it, and the cleaned
\* values end up in the instance built from it.
Store(heap, ids, records) ==
    LET top == IF ids = <<>> THEN Len(heap)
               ELSE IF ids[Len(ids)] > Len(heap) THEN ids[Len(ids)]
               ELSE Len(heap)
    IN  [ i \in 1..top |->
            IF \E k \in 1..Len(ids) : ids[k] = i
            THEN records[CHOOSE k \in 1..Len(ids) : ids[k] = i]
            ELSE heap[i] ]

CleanInit ==
    /\ \/ /\ cl_pc = "companies"
          /\ companies_in \in ListsUpTo(CompanySamples, MaxRecords)
          /\ jobs_in = <<>>
          /\ cl_heap = companies_in
       \/ /\ cl_pc = "jobs"
          /\ jobs_in \in ListsUpTo(JobSamples, MaxRecords)
          /\ companies_in = <<>>
          /\ cl_heap = jobs_in
    /\ companies_out = <<>>
    /\ jobs_out = <<>>
    /\ cl_in_ids = IdsOf(cl_heap)
    /\ cl_out_ids = <<>>

CleanCompaniesCall ==
    /\ cl_pc = "companies"
    /\ companies_out' = clean_companies(companies_in)
    /\ cl_out_ids' = InstanceIds(cl_heap, Len(companies_out'))
    /\ cl_heap' = Store(cl_heap, cl_out_ids', companies_out')
    /\ cl_pc' = "companies_done"
    /\ UNCHANGED <<companies_in, jobs_in, jobs_out, cl_in_ids>>

CleanJobsCall ==
    /\ cl_pc = "jobs"
    /\ jobs_out' = clean_jobs(jobs_in)
    /\ cl_out_ids' = InstanceIds(cl_heap, Len(jobs_out'))
    /\ cl_heap' = Store(cl_heap, cl_out_ids', jobs_out')
    /\ cl_pc' = "jobs_done"
    /\ UNCHANGED <<companies_in, companies_out, jobs_in, cl_in_ids>>

CleanNext == CleanCompaniesCall \/ CleanJobsCall

----------------------------------------------------------------------------
\* The orchestrator (YCJobScraper.scrape_search and
\* _scrape_jobs_for_companies).

\* URLBuilder.BASE_URL
BASE_URL ==
    <<"h","t","t","p","s",":","/","/","w","w","w",".","w","o","r","k","a",
      "t","a","s","t","a","r","t","u","p",".","c","o","m","/","c","o","m",
      "p","a","n","i","e","s">>

\* The longest prefix of s without a character of stops, and the rest.
StopIndex(s, stops) ==
    IF \E i \in 1..Len(s) : s[i] \in stops
    THEN CHOOSE i \in 1..Len(s) :
            /\ s[i] \in stops
            /\ \A j \in 1..(i - 1) : s[j] \notin stops
    ELSE Len(s) + 1

TakeUntil(s, stops) == SubSeq(s, 1, StopIndex(s, stops) - 1)

DropUntil(s, stops) == DropFirst(s, Len(TakeUntil(s, stops)))

\* urlparse(company_url).path: what follows the host, up to the query or
\* fragment; a text with no "//" after its scheme has no host.
UrlPath(company_url) ==
    LET rest == IF StartsWith(company_url, Https)
                THEN DropUntil(DropFirst(company_url, Len(Https)),
                               {"/", "?", "#"})
                ELSE IF StartsWith(company_url, Http)
                THEN DropUntil(DropFirst(company_url, Len(Http)),
                               {"/", "?", "#"})
                ELSE IF StartsWith(company_url, <<"/", "/">>)
                THEN DropUntil(DropFirst(company_url, 2), {"/", "?", "#"})
                ELSE company_url
    IN  TakeUntil(rest, {"?", "#"})

\* [part for part in parsed.path.split('/') if part]
RECURSIVE path_parts(_)
path_parts(path) ==
    IF path = <<>> THEN <<>>
    ELSE IF Head(path) = "/" THEN path_parts(Tail(path))
    ELSE <<TakeUntil(path, {"/"})>> \o path_parts(DropUntil(path, {"/"}))

\* URLBuilder.extract_company_slug
extract_company_slug(company_url) ==
    LET parts == path_parts(UrlPath(company_url)) IN
    IF Len(parts) >= 2 /\ parts[1] = <<"c","o","m","p","a","n","i","e","s">>
    THEN parts[2]
    ELSE None

\* URLBuilder.build_company_jobs_url
build_company_jobs_url(company_slug) ==
    BASE_URL \o <<"/">> \o company_slug \o <<"/","j","o","b","s">>

\* "Determine jobs URL": company.jobs_url, else the url built from the slug
\* of the profile url, else nothing.
JobsUrlOf(company) ==
    IF Truthy(company.jobs_url) THEN company.jobs_url
    ELSE IF Truthy(company.yc_profile_url)
            /\ Truthy(extract_company_slug(company.yc_profile_url))
         THEN build_company_jobs_url(
                  extract_company_slug(company.yc_profile_url))
    ELSE None

----------------------------------------------------------------------------
\* Search parameters and their URL form (SearchParams, URLBuilder).

\* The values of the enums.
YesNoAny == { <<"y","e","s">>, <<"n","o">>, <<"a","n","y">> }
JobType ==
    { <<"f","u","l","l","t","i","m","e">>,
      <<"p","a","r","t","t","i","m","e">>,
      <<"i","n","t","e","r","n","s","h","i","p">>,
      <<"c","o","n","t","r","a","c","t">>,
      <<"a","n","y">> }
Role ==
    { <<"e","n","g","i","n","e","e","r","i","n","g">>,
      <<"d","e","s","i","g","n">>,
      <<"p","r","o","d","u","c","t">>,
      <<"s","a","l","e","s">>,
      <<"m","a","r","k","e","t","i","n","g">>,
      <<"o","p","e","r","a","t","i","o","n","s">>,
      <<"f","i","n","a","n","c","e">>,
      <<"l","e","g","a","l">>,
      <<"s","c","i","e","n","c","e">>,
      <<"a","n","y">> }
SortBy ==
    { <<"c","r","e","a","t","e","d","_","d","e","s","c">>,
      <<"c","r","e","a","t","e","d","_","a","s","c">>,
      <<"c","o","m","p","a","n","y","_","n","a","m","e">>,
      <<"i","n","d","u","s","t","r","y">> }
Layout ==
    { <<"l","i","s","t","-","c","o","m","p","a","c","t">>,
      <<"l","i","s","t","-","d","e","t","a","i","l","e","d">>,
      <<"g","r","i","d">> }

TextAny == <<"a","n","y">>

\* SearchParams(): every field at its default.
DefaultParams ==
    [ demographic |-> TextAny, has_equity |-> TextAny, has_salary |-> TextAny,
      industry |-> TextAny, interview_process |-> TextAny,
      job_type |-> <<"f","u","l","l","t","i","m","e">>,
      layout |-> <<"l","i","s","t","-","c","o","m","p","a","c","t">>,
      role |-> TextAny,
      sort_by |-> <<"c","r","e","a","t","e","d","_","d","e","s","c">>,
      tab |-> TextAny, us_visa_not_required |-> TextAny,
      location |-> None, company_size |-> None ]

\* The query-parameter names, in the order to_url_params lists them.
KeyDemographic == <<"d","e","m","o","g","r","a","p","h","i","c">>
KeyHasEquity == <<"h","a","s","E","q","u","i","t","y">>
KeyHasSalary == <<"h","a","s","S","a","l","a","r","y">>
KeyIndustry == <<"i","n","d","u","s","t","r","y">>
KeyInterviewProcess ==
    <<"i","n","t","e","r","v","i","e","w","P","r","o","c","e","s","s">>
KeyJobType == <<"j","o","b","T","y","p","e">>
KeyLayout == <<"l","a","y","o","u","t">>
KeyRole == <<"r","o","l","e">>
KeySortBy == <<"s","o","r","t","B","y">>
KeyTab == <<"t","a","b">>
KeyUsVisaNotRequired ==
    <<"u","s","V","i","s","a","N","o","t","R","e","q","u","i","r","e","d">>
KeyLocation == <<"l","o","c","a","t","i","o","n">>
KeyCompanySize == <<"c","o","m","p","a","n","y","S","i","z","e">>

\* SearchParams.to_url_params: the (name, value) pairs of the dictionary, in
\* insertion order; location and companySize only when set.
to_url_params(p) ==
    << <<KeyDemographic, p.demographic>>,
       <<KeyHasEquity, p.has_equity>>,
       <<KeyHasSalary, p.has_salary>>,
       <<KeyIndustry, p.industry>>,
       <<KeyInterviewProcess, p.interview_process>>,
       <<KeyJobType, p.job_type>>,
       <<KeyLayout, p.layout>>,
       <<KeyRole, p.role>>,
       <<KeySortBy, p.sort_by>>,
       <<KeyTab, p.tab>>,
       <<KeyUsVisaNotRequired, p.us_visa_not_required>> >>
    \o (IF Truthy(p.location) THEN << <<KeyLocation, p.location>> >>
        ELSE <<>>)
    \o (IF Truthy(p.company_size)
        THEN << <<KeyCompanySize, p.company_size>> >> ELSE <<>>)

\* Percent escapes of the reserved characters the model's texts use.
Escapes ==
    { <<"&", <<"%","2","6">> >>, <<"=", <<"%","3","D">> >>,
      <<"+", <<"%","2","B">> >>, <<"%", <<"%","2","5">> >>,
      <<"#", <<"%","2","3">> >>, <<"?", <<"%","3","F">> >>,
      <<"/", <<"%","2","F">> >>, <<":", <<"%","3","A">> >> }

Reserved == { e[1] : e \in Escapes }
EscapeOf(c) == (CHOOSE e \in Escapes : e[1] = c)[2]

\* urllib.parse.quote_plus: a space becomes "+", a reserved character its
\* percent escape, letters, digits and "_.-~" stay.
RECURSIVE quote_plus(_)
quote_plus(s) ==
    IF s = <<>> THEN <<>>
    ELSE (IF Head(s) = " " THEN <<"+">>
          ELSE IF Head(s) \in Reserved THEN EscapeOf(Head(s))
          ELSE <<Head(s)>>) \o quote_plus(Tail(s))

\* urllib.parse.urlencode of a list of pairs.
RECURSIVE urlencode(_)
urlencode(pairs) ==
    IF pairs = <<>> THEN <<>>
    ELSE quote_plus(Head(pairs)[1]) \o <<"=">> \o quote_plus(Head(pairs)[2])
         \o (IF Tail(pairs) = <<>> THEN <<>>
             ELSE <<"&">> \o urlencode(Tail(pairs)))

\* URLBuilder.build_search_url
build_search_url(search_params) ==
    BASE_URL \o <<"?">> \o urlencode(to_url_params(search_params))

\* urllib.parse.unquote after replacing "+" by a space: a percent escape
\* becomes its character, anything else stays.
RECURSIVE unquote_plus(_)
unquote_plus(s) ==
    IF s = <<>> THEN <<>>
    ELSE IF Head(s) = "+" THEN <<" ">> \o unquote_plus(Tail(s))
    ELSE IF Len(s) >= 3 /\ \E e \in Escapes : e[2] = SubSeq(s, 1, 3)
         THEN <<(CHOOSE e \in Escapes : e[2] = SubSeq(s, 1, 3))[1]>>
              \o unquote_plus(DropFirst(s, 3))
    ELSE <<Head(s)>> \o unquote_plus(Tail(s))

\* urlparse(url).query: what follows the first "?" up to the fragment.
UrlQuery(url) ==
    LET nofrag == TakeUntil(url, {"#"}) IN
    IF \E i \in 1..Len(nofrag) : nofrag[i] = "?"
    THEN DropFirst(DropUntil(nofrag, {"?"}), 1)
    ELSE <<>>

\* urllib.parse.parse_qs with its defaults: the fields are separated by "&";
\* a field with no "=" or with an empty value is skipped
\* (keep_blank_values is False); names and values are unquoted.
RECURSIVE parse_qs(_)
parse_qs(query) ==
    IF query = <<>> THEN <<>>
    ELSE LET field == TakeUntil(query, {"&"})
             rest == DropFirst(DropUntil(query, {"&"}), 1)
             name == TakeUntil(field, {"="})
             value == DropFirst(DropUntil(field, {"="}), 1)
         IN  (IF value = <<>> THEN <<>>
              ELSE << <<unquote_plus(name), unquote_plus(value)>> >>)
             \o parse_qs(rest)

\* `name in query_params` and `query_params[name][0]`
HasParam(query_params, name) ==
    \E i \in 1..Len(query_params) : query_params[i][1] = name
FirstParam(query_params, name) ==
    query_params[CHOOSE i \in 1..Len(query_params) :
                    /\ query_params[i][1] = name
                    /\ \A j \in 1..(i - 1) : query_params[j][1] # name][2]

\* The value from_url hands to the constructor for one field: the first
\* value of the parameter when the query has it, the default otherwise.
ParamOr(query_params, name, default) ==
    IF HasParam(query_params, name) THEN FirstParam(query_params, name)
    ELSE default

\* The keyword arguments from_url builds.
ParsedParams(url) ==
    LET q == parse_qs(UrlQuery(url)) IN
    [ demographic |-> ParamOr(q, KeyDemographic, DefaultParams.demographic),
      has_equity |-> ParamOr(q, KeyHasEquity, DefaultParams.has_equity),
      has_salary |-> ParamOr(q, KeyHasSalary, DefaultParams.has_salary),
      industry |-> ParamOr(q, KeyIndustry, DefaultParams.industry),
      interview_process |->
          ParamOr(q, KeyInterviewProcess, DefaultParams.interview_process),
      job_type |-> ParamOr(q, KeyJobType, DefaultParams.job_type),
      layout |-> ParamOr(q, KeyLayout, DefaultParams.layout),
      role |-> ParamOr(q, KeyRole, DefaultParams.role),
      sort_by |-> ParamOr(q, KeySortBy, DefaultParams.sort_by),
      tab |-> ParamOr(q, KeyTab, DefaultParams.tab),
      us_visa_not_required |->
          ParamOr(q, KeyUsVisaNotRequired,
                  DefaultParams.us_visa_not_required),
      location |-> ParamOr(q, KeyLocation, DefaultParams.location),
      company_size |->
          ParamOr(q, KeyCompanySize, DefaultParams.company_size) ]

\* The validation the constructor runs: every enum field holds a value of
\* its enum.
ValidParams(p) ==
    /\ p.demographic \in YesNoAny
    /\ p.has_equity \in YesNoAny
    /\ p.has_salary \in YesNoAny
    /\ p.job_type \in JobType
    /\ p.layout \in Layout
    /\ p.role \in Role
    /\ p.sort_by \in SortBy
    /\ p.us_visa_not_required \in YesNoAny

\* SearchParams.from_url: <<the parameters>>, or <<>> when the constructor
\* raises a validation error.
from_url(url) ==
    IF ValidParams(ParsedParams(url)) THEN <<ParsedParams(url)>> ELSE <<>>

\* URLBuilder.is_yc_url: the host of the url, lower-cased, is the site's.
UrlHost(url) ==
    IF StartsWith(url, Https)
    THEN TakeUntil(DropFirst(url, Len(Https)), {"/", "?", "#"})
    ELSE IF StartsWith(url, Http)
    THEN TakeUntil(DropFirst(url, Len(Http)), {"/", "?", "#"})
    ELSE IF StartsWith(url, <<"/", "/">>)
    THEN TakeUntil(DropFirst(url, 2), {"/", "?", "#"})
    ELSE <<>>

YcHosts ==
    { <<"w","w","w",".","w","o","r","k","a","t","a","s","t","a","r","t","u","p",".","c","o","m">>,
      <<"w","o","r","k","a","t","a","s","t","a","r","t","u","p",".","c","o","m">> }

is_yc_url(url) == Lower(UrlHost(url)) \in YcHosts

\* Values of the free-text fields: the default, the empty text, texts with
\* a space and with reserved characters.
FreeTexts ==
    { TextAny, <<>>, <<" ">>, <<"a"," ","b">>,
      <<"a","&","b","=","c">>, <<"x","+","%","#","/","?",":">> }

\* SearchParams values: every value of every enum, every free text in the
\* required and in the optional text fields.
ParamSamples ==
    { [DefaultParams EXCEPT !.demographic = d, !.has_equity = e,
                            !.industry = t, !.location = l] :
        d \in YesNoAny, e \in YesNoAny, t \in FreeTexts,
        l \in {None} \cup FreeTexts }
    \cup { [DefaultParams EXCEPT !.has_salary = d,
                                 !.us_visa_not_required = d,
                                 !.interview_process = t, !.tab = t,
                                 !.company_size = t] :
             d \in YesNoAny, t \in FreeTexts }
    \cup { [DefaultParams EXCEPT !.job_type = j, !.layout = y] :
             j \in JobType, y \in Layout }
    \cup { [DefaultParams EXCEPT !.role = r, !.sort_by = s] :
             r \in Role, s \in SortBy }

ParamsInit ==
    /\ ps_pc = "params"
    /\ ps_params \in ParamSamples
    /\ ps_url = <<>>
    /\ ps_parsed = <<>>

\* URLBuilder.build_search_url(p)
BuildSearchUrl ==
    /\ ps_pc = "params"
    /\ ps_url' = build_search_url(ps_params)
    /\ ps_pc' = "built"
    /\ UNCHANGED <<ps_params, ps_parsed>>

\* SearchParams.from_url(url)
ParseSearchUrl ==
    /\ ps_pc = "built"
    /\ ps_parsed' = from_url(ps_url)
    /\ ps_pc' = "parsed"
    /\ UNCHANGED <<ps_params, ps_url>>

ParamsNext == BuildSearchUrl \/ ParseSearchUrl

----------------------------------------------------------------------------
\* The orchestrator, continued.

\* JobExtractor._create_job_from_data: the Job built from one extracted
\* block; the company name falls back to the company being scraped.
JobFromData(data, company_name) ==
    [ title |-> Strip(data.title),
      company_name |-> IF Truthy(data.company_name)
                       THEN Strip(data.company_name) ELSE company_name,
      company_description |-> data.company_description,
      company_industry |-> None,
      company_size |-> None,
      application_url |-> None,
      company_url |-> data.company_url ]

\* JobExtractor.extract_jobs: never raises; a failed extraction gives [].
extract_jobs(outcome, company_name) ==
    IF outcome.extract_raises THEN <<>>
    ELSE [k \in 1..Len(outcome.jobs_data) |->
             JobFromData(outcome.jobs_data[k], company_name)]

\* `job.company_url = company.url`: Job validates assignments and
\* company_url is Optional[str], while Company.url is an HttpUrl object, not a
\* str; assigning one is rejected with a ValidationError.  Assigning None
\* (the company has no url) is accepted.
CompanyUrlRejected(job, company) ==
    ~Truthy(job.company_url) /\ company.url # None

\* "Add company context to jobs" raises at the first job whose assignment is
\* rejected.
AddContextRaises(company_jobs, company) ==
    \E k \in 1..Len(company_jobs) : CompanyUrlRejected(company_jobs[k], company)

\* One job after "Add company context to jobs".
WithContext(job, company) ==
    [ job EXCEPT
        !.company_url = IF ~Truthy(@) THEN company.url ELSE @,
        !.company_description =
            IF ~Truthy(@) THEN company.description ELSE @,
        !.company_industry = IF ~Truthy(@) THEN company.industry ELSE @,
        !.company_size = IF ~Truthy(@) THEN company.team_size ELSE @ ]

AddContext(company_jobs, company) ==
    [k \in 1..Len(company_jobs) |-> WithContext(company_jobs[k], company)]

\* The body of the loop for one company: what it appends to all_jobs and how
\* it ended.  "raised" is the `except Exception` branch.
LoopBody(company, outcome) ==
    IF company.job_count = 0
    THEN [kind |-> "no_jobs_listed", raised |-> FALSE, jobs_data |-> <<>>,
          add |-> <<>>]
    ELSE IF ~Truthy(JobsUrlOf(company))
    THEN [kind |-> "no_jobs_url", raised |-> FALSE, jobs_data |-> <<>>,
          add |-> <<>>]
    ELSE IF outcome.fetch = "raise"
    THEN [kind |-> "fetch_raised", raised |-> TRUE, jobs_data |-> <<>>,
          add |-> <<>>]
    ELSE IF outcome.fetch = "empty"
    THEN [kind |-> "no_content", raised |-> FALSE, jobs_data |-> <<>>,
          add |-> <<>>]
    ELSE IF outcome.extract_raises
    THEN [kind |-> "extract_failed", raised |-> FALSE, jobs_data |-> <<>>,
          add |-> <<>>]
    ELSE LET company_jobs == extract_jobs(outcome, company.name) IN
         IF AddContextRaises(company_jobs, company)
         THEN [kind |-> "context_raised", raised |-> TRUE,
               jobs_data |-> outcome.jobs_data, add |-> <<>>]
         ELSE [kind |-> "extended", raised |-> FALSE,
               jobs_data |-> outcome.jobs_data,
               add |-> AddContext(company_jobs, company)]

\* `continue` in the except branch: the loop goes on with the next company.
AfterFailure_abort(i, n) == n + 1
AfterFailure(i, n) == i + 1

\* A Company as extract_companies builds it.
ExtractedCompany(name, job_count, jobs_url, yc_profile_url, url, description) ==
    [ name |-> Strip(name), description |-> description, industry |-> None,
      team_size |-> None, url |-> url, yc_profile_url |-> yc_profile_url,
      jobs_url |-> jobs_url, logo_url |-> None, job_count |-> job_count,
      founded_year |-> <<>> ]

\* Sample field values.
NameEf   == <<"E","f">>
NameGh   == <<"G","h">>
NameIj   == <<"I","j">>
JobsUrlA == <<"h","t","t","p","s",":","/","/","y",".","c","o","/","j">>
YcSlug   == <<"h","t","t","p","s",":","/","/","y",".","c","o","/",
              "c","o","m","p","a","n","i","e","s","/","c","d">>
UrlJ     == <<"h","t","t","p",":","/","/","j",".","c","o","/">>
TextD    == <<"d">>
TextOwn  == <<"o","w","n">>

\* Companies with a jobs url and no website; with a profile url carrying a
\* slug and a website; with no jobs listed; with neither jobs url nor slug.
SearchCompanySamples ==
    { ExtractedCompany(NameAB, 2, JobsUrlA, None, None, TextD),
      ExtractedCompany(NameCd, 1, None, YcSlug, UrlT, None),
      ExtractedCompany(NameEf, 0, JobsUrlA, None, None, None),
      ExtractedCompany(NameGh, 1, JobsUrlA, None, None, None),
      ExtractedCompany(NameIj, 1, None, YcB, None, None) }

\* Extracted job blocks: a bare one and one that carries company fields.
DataX ==
    [title |-> <<"X">>, company_name |-> None,
     company_description |-> None, company_url |-> None]
DataY ==
    [title |-> <<"Y">>, company_name |-> None,
     company_description |-> TextOwn, company_url |-> UrlJ]

\* What the extraction gateway yields for one page.
JobDataSamples ==
    { <<>>, <<DataX>>, <<DataY>>, <<DataX, DataY>>, <<DataX, DataX>> }

\* What the gateways do for one company: the fetch raises, brings no
\* content, or brings content from which the extraction fails or yields
\* job blocks.
CompanyOutcomes ==
    { [fetch |-> "raise", extract_raises |-> FALSE, jobs_data |-> <<>>],
      [fetch |-> "empty", extract_raises |-> FALSE, jobs_data |-> <<>>],
      [fetch |-> "content", extract_raises |-> TRUE, jobs_data |-> <<>>] }
    \cup { [fetch |-> "content", extract_raises |-> FALSE, jobs_data |-> l] :
             l \in JobDataSamples }

NoReturn == [returned |-> FALSE, companies |-> <<>>, jobs |-> <<>>]
ReturnPair(cs, js) == [returned |-> TRUE, companies |-> cs, jobs |-> js]

\* `if not content`: the fetch failed after all its retries (the scroll
\* handler then returns {}), or brought no markdown.
NoContent_never(content) == FALSE
NoContent(content) == content # "content"

\* Whether an iteration of the jobs loop issued a fetch, and whether it
\* invoked the extraction.
FetchIssued(kind) == kind \notin {"no_jobs_listed", "no_jobs_url"}
ExtractionInvoked(kind) ==
    kind \in {"extract_failed", "context_raised", "extended"}

\* Values of max_companies: None (0) and small limits.  The limit goes into
\* the prompt only ("Extract up to N companies."): what the extraction
\* gateway returns does not depend on it, and neither extract_companies nor
\* scrape_search cuts the list.
MaxCompaniesSamples == 0..2

\* A call of scrape_search: the content the scroll brings, the companies the
\* extraction yields from it, and the include_jobs flag.
SearchInit ==
    /\ ss_op = "search"
    /\ ss_url = <<>>
    /\ ss_slug = <<>>
    /\ ss_params = DefaultParams
    /\ ss_pc = "start"
    /\ ss_content \in {"raise", "empty", "content"}
    /\ ss_fetches = 0
    /\ ss_extractions = 0
    /\ ss_extracted \in ListsUpTo(SearchCompanySamples, MaxCompanies)
    /\ include_jobs \in BOOLEAN
    /\ max_companies \in MaxCompaniesSamples
    /\ ss_companies = <<>>
    /\ ss_i = 0
    /\ all_jobs = <<>>
    /\ ss_log = <<>>
    /\ ss_return = NoReturn

\* scrape_search up to the loop of _scrape_jobs_for_companies; it returns
\* here when there is no content, no company, no job to scrape or no company
\* left to scrape jobs for.
SearchStart ==
    /\ ss_pc = "start"
    /\ ss_op \in {"search", "from_url"}
    /\ ss_fetches' = ss_fetches + 1
    /\ UNCHANGED <<ss_op, ss_url, ss_slug, ss_params, ss_content,
                   ss_extracted, include_jobs, max_companies, all_jobs,
                   ss_log>>
    /\ IF NoContent(ss_content)
       THEN /\ ss_return' = ReturnPair(<<>>, <<>>)
            /\ ss_pc' = "returned"
            /\ UNCHANGED <<ss_companies, ss_i, ss_extractions>>
       ELSE /\ ss_extractions' = ss_extractions + 1
            /\ IF ss_extracted = <<>>
               THEN /\ ss_return' = ReturnPair(<<>>, <<>>)
                    /\ ss_pc' = "returned"
                    /\ UNCHANGED <<ss_companies, ss_i>>
               ELSE /\ ss_companies' = clean_companies(ss_extracted)
                    /\ IF ~include_jobs
                       THEN /\ ss_return' = ReturnPair(ss_companies', <<>>)
                            /\ ss_pc' = "returned"
                            /\ UNCHANGED ss_i
                       ELSE IF ss_companies' = <<>>
                       THEN /\ ss_return' =
                                   ReturnPair(<<>>, clean_jobs(<<>>))
                            /\ ss_pc' = "returned"
                            /\ UNCHANGED ss_i
                       ELSE /\ ss_pc' = "jobs"
                            /\ ss_i' = 1
                            /\ UNCHANGED ss_return

\* One iteration of the loop of _scrape_jobs_for_companies on the company at
\* ss_i; after the last one the call ends: jobs = clean_jobs(all_jobs) and
\* scrape_search returns companies, jobs.
ScrapeJobsForCompany(outcome) ==
    /\ ss_pc = "jobs"
    /\ ss_i <= Len(ss_companies)
    /\ LET step == LoopBody(ss_companies[ss_i], outcome)
           next == IF step.raised
                   THEN AfterFailure(ss_i, Len(ss_companies))
                   ELSE ss_i + 1
       IN  /\ all_jobs' = all_jobs \o step.add
           /\ ss_log' = ss_log \o << [index |-> ss_i, kind |-> step.kind,
                                      raised |-> step.raised,
                                      jobs_data |-> step.jobs_data] >>
           /\ ss_fetches' =
                 ss_fetches + (IF FetchIssued(step.kind) THEN 1 ELSE 0)
           /\ ss_extractions' =
                 ss_extractions
                    + (IF ExtractionInvoked(step.kind) THEN 1 ELSE 0)
           /\ ss_i' = next
           /\ IF next > Len(ss_companies)
              THEN /\ ss_return' = ReturnPair(ss_companies,
                                              clean_jobs(all_jobs'))
                   /\ ss_pc' = "returned"
              ELSE UNCHANGED <<ss_pc, ss_return>>
    /\ UNCHANGED <<ss_op, ss_url, ss_slug, ss_params, ss_content,
                   ss_extracted, include_jobs, max_companies, ss_companies>>

SearchNext ==
    \/ SearchStart
    \/ \E outcome \in CompanyOutcomes : ScrapeJobsForCompany(outcome)

\* ---- scrape_from_url ----

\* Arguments of scrape_from_url: the url of a search on the site, urls on the
\* site and on another host with a valid role, with no query, and with a
\* role that is no value of the enum.
UrlOnSite == BASE_URL \o <<"?","r","o","l","e","=","d","e","s","i","g","n","&","i","n","d","u","s","t","r","y","=","a","+","b">>
UrlOnSiteBadRole == BASE_URL \o <<"?","r","o","l","e","=","c","e","o">>
UrlOtherHost ==
    <<"h","t","t","p","s",":","/","/","e","v","i","l",".","c","o","/","c","o","m","p","a","n","i","e","s","?","r","o","l","e","=","d","e","s","i","g","n">>
UrlOtherHostBare == <<"h","t","t","p","s",":","/","/","e","v","i","l",".","c","o","/">>
UrlOtherHostBadRole == <<"h","t","t","p",":","/","/","e","v","i","l",".","c","o","/","?","r","o","l","e","=","c","e","o">>

UrlSamples ==
    { build_search_url(DefaultParams), UrlOnSite, UrlOnSiteBadRole,
      UrlOtherHost, UrlOtherHostBare, UrlOtherHostBadRole }

\* scrape_from_url up to its call of scrape_search: the url is parsed into
\* SearchParams; a parse that raises returns [], [].
ScrapeFromUrl ==
    /\ ss_pc = "url"
    /\ ss_op = "from_url"
    /\ IF from_url(ss_url) = <<>>
       THEN /\ ss_return' = ReturnPair(<<>>, <<>>)
            /\ ss_pc' = "returned"
            /\ UNCHANGED ss_params
       ELSE /\ ss_params' = from_url(ss_url)[1]
            /\ ss_pc' = "start"
            /\ UNCHANGED ss_return
    /\ UNCHANGED <<ss_op, ss_url, ss_slug, ss_content, ss_fetches,
                   ss_extractions, ss_extracted, include_jobs, max_companies,
                   ss_companies,
                   ss_i, all_jobs, ss_log>>

\* ---- scrape_company ----

\* URLBuilder.build_company_url
build_company_url(company_slug) == BASE_URL \o <<"/">> \o company_slug

\* CompanyExtractor.extract_company_from_page: the validated Company, with
\* the page url as its profile url when it has none; <<>> for None.
extract_company_from_page(extracted, company_url) ==
    IF extracted = <<>> THEN <<>>
    ELSE << [ extracted[1] EXCEPT
                !.yc_profile_url = IF ~Truthy(@) THEN company_url ELSE @ ] >>

\* `jobs_url = company.jobs_url`, else the url built from the slug.
CompanyJobsUrl(company, company_slug) ==
    IF Truthy(company.jobs_url) THEN company.jobs_url
    ELSE build_company_jobs_url(company_slug)

\* Companies as the structured extraction validates them from a profile
\* page: nothing is cleaned.
TextNA == <<"N","/","A">>
UrlNoScheme == <<"y",".","c","o","/","j","o","b","s">>
PageCompanySamples ==
    { ExtractedCompany(NameAB, 1, None, None, None, TextD),
      ExtractedCompany(NameCd, 2, JobsUrlA, YcSlug, UrlT, TextNA),
      ExtractedCompany(NameEf, 0 - 1, None, None, None, None),
      ExtractedCompany(NameGh, 1, UrlNoScheme, None, None, None),
      ExtractedCompany(NameAB2, 1, None, None, None, None) }

SlugSamples == { <<"c","d">>, <<"x">> }

\* scrape_company, whole: the profile page is fetched and the company
\* extracted; when there is one its jobs page is fetched, the jobs extracted
\* and cleaned.  Any exception returns None, [].
ScrapeCompany(outcome) ==
    /\ ss_pc = "start"
    /\ ss_op = "company"
    /\ ss_pc' = "returned"
    /\ LET company_url == build_company_url(ss_slug)
           company == extract_company_from_page(ss_extracted, company_url)
       IN
       IF ss_content = "raise" \/ NoContent(ss_content)
       THEN /\ ss_return' = ReturnPair(<<>>, <<>>)
            /\ ss_fetches' = ss_fetches + 1
            /\ UNCHANGED <<ss_extractions, ss_companies, ss_log>>
       ELSE IF company = <<>>
       THEN /\ ss_return' = ReturnPair(<<>>, <<>>)
            /\ ss_fetches' = ss_fetches + 1
            /\ ss_extractions' = ss_extractions + 1
            /\ UNCHANGED <<ss_companies, ss_log>>
       ELSE /\ ss_companies' = company
            /\ ss_fetches' = ss_fetches + 2
            /\ ss_log' = << [index |-> 1,
                             kind |-> IF outcome.fetch = "raise"
                                      THEN "fetch_raised"
                                      ELSE IF outcome.fetch = "empty"
                                      THEN "no_content"
                                      ELSE "extracted",
                             raised |-> outcome.fetch = "raise",
                             jobs_data |-> outcome.jobs_data] >>
            /\ IF outcome.fetch = "raise"
               THEN /\ ss_return' = ReturnPair(<<>>, <<>>)
                    /\ ss_extractions' = ss_extractions + 1
               ELSE IF outcome.fetch = "empty"
               THEN /\ ss_return' = ReturnPair(company, <<>>)
                    /\ ss_extractions' = ss_extractions + 1
               ELSE /\ ss_return' =
                          ReturnPair(company,
                              clean_jobs(extract_jobs(outcome,
                                                      company[1].name)))
                    /\ ss_extractions' = ss_extractions + 2
    /\ UNCHANGED <<ss_op, ss_url, ss_slug, ss_params, ss_content,
                   ss_extracted, include_jobs, max_companies, ss_i, all_jobs>>

\* A call of any of the three entry points.
EntryInit ==
    /\ ss_fetches = 0
    /\ ss_extractions = 0
    /\ ss_companies = <<>>
    /\ ss_i = 0
    /\ all_jobs = <<>>
    /\ ss_log = <<>>
    /\ ss_return = NoReturn
    /\ ss_content \in {"raise", "empty", "content"}
    /\ ss_params = DefaultParams
    /\ \/ /\ ss_op = "search"
          /\ ss_pc = "start"
          /\ ss_url = <<>>
          /\ ss_slug = <<>>
          /\ ss_extracted \in
                ListsUpTo(SearchCompanySamples, MaxEntryCompanies)
          /\ include_jobs \in BOOLEAN
          /\ max_companies \in MaxCompaniesSamples
       \/ /\ ss_op = "from_url"
          /\ ss_pc = "url"
          /\ ss_url \in UrlSamples
          /\ ss_slug = <<>>
          /\ ss_extracted \in
                ListsUpTo(SearchCompanySamples, MaxEntryCompanies)
          /\ include_jobs \in BOOLEAN
          /\ max_companies \in MaxCompaniesSamples
       \/ /\ ss_op = "company"
          /\ ss_pc = "start"
          /\ ss_url = <<>>
          /\ ss_slug \in SlugSamples
          /\ ss_extracted \in ListsUpTo(PageCompanySamples, 1)
          /\ include_jobs = TRUE
          /\ max_companies = 0

EntryNext ==
    \/ ScrapeFromUrl
    \/ SearchStart
    \/ \E outcome \in CompanyOutcomes : ScrapeJobsForCompany(outcome)
    \/ \E outcome \in CompanyOutcomes : ScrapeCompany(outcome)

----------------------------------------------------------------------------
\* JobExtractor._parse_boolean.

\* A Python value of a JSON block, with its type: a bool b, a str s, an int
\* n, a list of n items or None.
PyBool(b) == [type |-> "bool", b |-> b, s |-> <<>>, n |-> 0]
PyStr(s) == [type |-> "str", b |-> FALSE, s |-> s, n |-> 0]
PyInt(n) == [type |-> "int", b |-> FALSE, s |-> <<>>, n |-> n]
PyList(n) == [type |-> "list", b |-> FALSE, s |-> <<>>, n |-> n]
PyNone == [type |-> "NoneType", b |-> FALSE, s |-> <<>>, n |-> 0]

\* `['true', 'yes', '1', 'on', 'enabled']`
true_strings == {
    <<"t","r","u","e">>,
    <<"y","e","s">>,
    <<"1">>,
    <<"o","n">>,
    <<"e","n","a","b","l","e","d">> }

\* bool(value) of a value that is neither a bool nor a str.
PyTruth(value) ==
    CASE value.type = "int" -> value.n # 0
      [] value.type = "list" -> value.n # 0
      [] value.type = "NoneType" -> FALSE

\* JobExtractor._parse_boolean
_parse_boolean(value) ==
    IF value.type = "bool" THEN value.b
    ELSE IF value.type = "str" THEN Lower(value.s) \in true_strings
    ELSE PyTruth(value)

\* The true strings in several letter cases, other strings, integers, lists
\* and None.
TrueStringSamples == {
    <<"t","r","u","e">>, <<"T","R","U","E">>,
    <<"T","r","u","e">>, <<"t","r","u","E">>,
    <<"y","e","s">>, <<"Y","E","S">>,
    <<"Y","e","s">>, <<"y","e","S">>,
    <<"1">>, <<"o","n">>,
    <<"O","N">>, <<"O","n">>,
    <<"o","N">>, <<"e","n","a","b","l","e","d">>,
    <<"E","N","A","B","L","E","D">>, <<"E","n","a","b","l","e","d">>,
    <<"e","n","a","b","l","e","D">> }
OtherStringSamples == {
    <<"f","a","l","s","e">>,
    <<"n","o">>,
    <<"0">>,
    <<"o","f","f">>,
    <<"d","i","s","a","b","l","e","d">>,
    <<>>,
    <<" ">>,
    <<" ","t","r","u","e">>,
    <<"t","r","u","e"," ">>,
    <<"y">>,
    <<"t">>,
    <<"2">>,
    <<"1","1">>,
    <<"o","k">>,
    <<"T","r","u","e","!">>,
    <<"n","o","p","e">> }
IntSamples == (0 - 10)..20
ListSamples == 0..2

BooleanInputs ==
    { PyBool(b) : b \in BOOLEAN }
    \cup { PyStr(s) : s \in TrueStringSamples \cup OtherStringSamples }
    \cup { PyInt(n) : n \in IntSamples }
    \cup { PyList(n) : n \in ListSamples }
    \cup { PyNone }

BooleanInit ==
    /\ pb_pc = "call"
    /\ pb_value \in BooleanInputs
    /\ pb_result = FALSE

\* One call of _parse_boolean.
ParseBoolean ==
    /\ pb_pc = "call"
    /\ pb_result' = _parse_boolean(pb_value)
    /\ pb_pc' = "done"
    /\ UNCHANGED pb_value

BooleanNext == ParseBoolean

----------------------------------------------------------------------------
\* The record extractors (CompanyExtractor.extract_companies,
\* JobExtractor.extract_jobs) over the extraction gateway
\* (GeminiClient.extract_companies, GeminiClient.extract_jobs).

\* Company.url is an HttpUrl: an http(s) url with a host and no whitespace.
HttpUrlAccepts(url) ==
    /\ StartsWith(url, Http) \/ StartsWith(url, Https)
    /\ UrlHost(url) # <<>>
    /\ \A i \in 1..Len(url) : url[i] \notin Whitespace

\* The gateway without the unwrapping of an object.
GatewayList_nounwrap(response, key) ==
    IF response.kind # "list" THEN <<>> ELSE response.items

\* GeminiClient.extract_companies (key "companies") and extract_jobs (key
\* "jobs"): the list of raw items.  A failed generation and an unparsable
\* response raise inside the try and give []; an object holding the key is
\* replaced by the value under the key; anything but a list gives [].
GatewayList(response, key) ==
    IF response.kind \in {"raise", "unparsable"} THEN <<>>
    ELSE LET unwrap == response.kind = "object" /\ response.key = key
             kind == IF unwrap THEN response.inner ELSE response.kind
         IN  IF kind # "list" THEN <<>> ELSE response.items

\* CompanyExtractor._clean_company_data followed by Company(**cleaned_data)
\* in _create_company_from_data: <<>> for None, else <<the Company>>.  An
\* item that is no object, or has no name, raises in the cleaning; a url
\* without http(s) scheme is left out; a url HttpUrl rejects makes the
\* construction raise.
_create_company_from_data(data) ==
    IF data.type # "object" \/ ~Truthy(data.name) THEN <<>>
    ELSE LET url == IF Truthy(data.url)
                       /\ (StartsWith(Strip(data.url), Http)
                           \/ StartsWith(Strip(data.url), Https))
                    THEN Strip(data.url) ELSE None
         IN  IF url # None /\ ~HttpUrlAccepts(url) THEN <<>>
             ELSE << ExtractedCompany(Strip(data.name), 0, None, None, url,
                                      None) >>

\* JobExtractor._clean_job_data followed by Job(**cleaned_data) in
\* _create_job_from_data: <<>> for None, else <<the Job>>.
_create_job_from_data(data, company_name) ==
    IF data.type # "object" \/ ~Truthy(data.title) THEN <<>>
    ELSE << JobFromData(data, company_name) >>

\* The loop of extract_companies over the raw items: an item without a
\* record is skipped.
RECURSIVE CompaniesFromData(_, _, _)
CompaniesFromData(companies_data, i, companies) ==
    IF i > Len(companies_data) THEN companies
    ELSE CompaniesFromData(companies_data, i + 1,
             companies \o _create_company_from_data(companies_data[i]))

\* The loop of extract_jobs over the raw items.
RECURSIVE JobsFromData(_, _, _, _)
JobsFromData(jobs_data, company_name, i, jobs) ==
    IF i > Len(jobs_data) THEN jobs
    ELSE JobsFromData(jobs_data, company_name, i + 1,
             jobs \o _create_job_from_data(jobs_data[i], company_name))

\* CompanyExtractor.extract_companies
extract_companies(response) ==
    CompaniesFromData(GatewayList(response, "companies"), 1, <<>>)

\* JobExtractor.extract_jobs, from the gateway's response on.
extract_jobs_from(response, company_name) ==
    JobsFromData(GatewayList(response, "jobs"), company_name, 1, <<>>)

\* Raw items: objects with and without a name, with a website url that is
\* fine, lacks the scheme or has no host; and an item that is no object.
UrlNoHost == <<"h","t","t","p",":","/","/">>
CompanyItem(type, name, url) == [type |-> type, name |-> name, url |-> url]
CompanyItemSamples ==
    { CompanyItem("object", NameAB, None),
      CompanyItem("object", NameCd, UrlT),
      CompanyItem("object", None, UrlT),
      CompanyItem("object", <<>>, None),
      CompanyItem("object", NameEf, UrlNoHost),
      CompanyItem("object", NameGh, UrlBare),
      CompanyItem("scalar", None, None) }

JobItem(type, title, company_name) ==
    [type |-> type, title |-> title, company_name |-> company_name,
     company_description |-> None, company_url |-> None]
JobItemSamples ==
    { JobItem("object", <<"X">>, None),
      JobItem("object", <<"Y">>, NameCd),
      JobItem("object", <<" ","Z"," ">>, None),
      JobItem("object", None, NameCd),
      JobItem("object", <<>>, None),
      JobItem("scalar", None, None) }

\* What the gateway call comes to: the generation fails after all retries,
\* the response is no JSON, or it parses to a list, to an object with one
\* key holding a list or something else, or to another value.
ResponseKeys == {"companies", "jobs", "data"}
ResponsesOver(items) ==
    { [kind |-> k, key |-> "", inner |-> "", items |-> <<>>] :
        k \in {"raise", "unparsable", "scalar"} }
    \cup { [kind |-> "list", key |-> "", inner |-> "", items |-> l] :
             l \in ListsUpTo(items, MaxItems) }
    \cup { [kind |-> "object", key |-> key, inner |-> "list", items |-> l] :
             key \in ResponseKeys, l \in ListsUpTo(items, MaxItems) }
    \cup { [kind |-> "object", key |-> key, inner |-> "scalar",
            items |-> <<>>] : key \in ResponseKeys }

ExtractInit ==
    /\ ex_result = <<>>
    /\ \/ /\ ex_pc = "companies"
          /\ ex_response \in ResponsesOver(CompanyItemSamples)
       \/ /\ ex_pc = "jobs"
          /\ ex_response \in ResponsesOver(JobItemSamples)

\* One call of CompanyExtractor.extract_companies.
ExtractCompaniesCall ==
    /\ ex_pc = "companies"
    /\ ex_result' = extract_companies(ex_response)
    /\ ex_pc' = "companies_done"
    /\ UNCHANGED ex_response

\* One call of JobExtractor.extract_jobs for the company named "A b".
ExtractJobsCall ==
    /\ ex_pc = "jobs"
    /\ ex_result' = extract_jobs_from(ex_response, NameAB)
    /\ ex_pc' = "jobs_done"
    /\ UNCHANGED ex_response

ExtractNext == ExtractCompaniesCall \/ ExtractJobsCall

----------------------------------------------------------------------------
\* AuthHandler: the session cookie and the user-agent rotation.

\* self.user_agents: four different strings (the browser and platform parts
\* that tell them apart).
user_agents ==
    << "Macintosh Chrome/120.0.0.0 Safari/537.36",
       "Windows NT 10.0 Chrome/120.0.0.0 Safari/537.36",
       "X11 Linux x86_64 Chrome/120.0.0.0 Safari/537.36",
       "Macintosh Version/17.1 Safari/605.1.15" >>

\* Values of a cookie argument and of the YC_SESSION_COOKIE variable: None
\* (not given, not set), the empty string, and two values.
CookieSamples == { None, <<>>, <<"a">>, <<"b">> }

\* `session_cookie or os.getenv("YC_SESSION_COOKIE")`
CookieOrEnv(arg, env) == IF Truthy(arg) THEN arg ELSE env

\* AuthHandler.get_cookies: the names of the cookies it returns.
get_cookies(cookie) == IF Truthy(cookie) THEN {"_yc_session"} ELSE {}

\* AuthHandler.is_authenticated
is_authenticated(cookie) == cookie # None

NextIndex_skip(i) == (i + 2) % Len(user_agents)

\* `(self.current_user_agent_index + 1) % len(self.user_agents)`
NextIndex(i) == (i + 1) % Len(user_agents)

\* AuthHandler.__init__
AuthInit ==
    /\ yc_session_env \in CookieSamples
    /\ \E arg \in CookieSamples :
           session_cookie = CookieOrEnv(arg, yc_session_env)
    /\ current_user_agent_index = 0
    /\ ua_log = <<>>

\* AuthHandler.get_user_agent, called directly or by get_headers: the entry
\* at the index is returned and the index moves on.
UserAgentCall(via) ==
    /\ Len(ua_log) < MaxCalls
    /\ ua_log' = Append(ua_log,
                    [via |-> via,
                     agent |-> user_agents[current_user_agent_index + 1]])
    /\ current_user_agent_index' = NextIndex(current_user_agent_index)
    /\ UNCHANGED <<session_cookie, yc_session_env>>

GetUserAgent == UserAgentCall("get_user_agent")

\* AuthHandler.get_headers: "User-Agent": self.get_user_agent()
GetHeaders == UserAgentCall("get_headers")

\* AuthHandler.set_session_cookie
SetSessionCookie(cookie) ==
    /\ session_cookie' = cookie
    /\ UNCHANGED <<current_user_agent_index, ua_log, yc_session_env>>

AuthNext ==
    \/ GetUserAgent
    \/ GetHeaders
    \/ \E cookie \in CookieSamples : SetSessionCookie(cookie)

----------------------------------------------------------------------------
\* Specifications: each runs one component and leaves the others idle.

\* No retry-wrapper call in progress.
RetryIdle ==
    /\ rw_kind = "fetch"
    /\ max_retries = 1
    /\ base_delay = 1
    /\ attempt = 0
    /\ last_error = [attempt |-> 0, cause |-> "none"]
    /\ rw_pc = "idle"
    /\ rw_value = NoValue
    /\ rw_raised = [attempt |-> 0, cause |-> "none"]
    /\ rw_log = <<>>

\* No scroll call in progress.
ScrollIdle ==
    /\ max_scrolls = 0
    /\ content_check_interval = 1
    /\ min_new_content_threshold = 0
    /\ sc_pc = "idle"
    /\ result = Unbound
    /\ sc_return = NotReturned
    /\ last_content = PageEmpty
    /\ last_length = 0
    /\ no_change_count = 0
    /\ scroll_num = 0
    /\ initial_fetches = 0
    /\ scroll_fetches = 0
    /\ completed = 0
    /\ sc_exit = "none"
    /\ sc_same = TRUE

\* No cleaning call in progress.
CleanIdle ==
    /\ cl_pc = "idle"
    /\ companies_in = <<>>
    /\ companies_out = <<>>
    /\ jobs_in = <<>>
    /\ jobs_out = <<>>
    /\ cl_heap = <<>>
    /\ cl_in_ids = <<>>
    /\ cl_out_ids = <<>>

\* No search in progress.
SearchIdle ==
    /\ ss_op = "search"
    /\ ss_url = <<>>
    /\ ss_slug = <<>>
    /\ ss_params = DefaultParams
    /\ ss_pc = "idle"
    /\ ss_content = "empty"
    /\ ss_fetches = 0
    /\ ss_extractions = 0
    /\ ss_extracted = <<>>
    /\ include_jobs = FALSE
    /\ max_companies = 0
    /\ ss_companies = <<>>
    /\ ss_i = 0
    /\ all_jobs = <<>>
    /\ ss_log = <<>>
    /\ ss_return = NoReturn

\* No url being built or parsed.
ParamsIdle ==
    /\ ps_pc = "idle"
    /\ ps_params = DefaultParams
    /\ ps_url = <<>>
    /\ ps_parsed = <<>>

\* No _parse_boolean call.
BooleanIdle ==
    /\ pb_pc = "idle"
    /\ pb_value = PyNone
    /\ pb_result = FALSE

\* No extraction call.
ExtractIdle ==
    /\ ex_pc = "idle"
    /\ ex_response = [kind |-> "scalar", key |-> "", inner |-> "",
                      items |-> <<>>]
    /\ ex_result = <<>>

\* An AuthHandler nobody uses.
AuthIdle ==
    /\ session_cookie = None
    /\ current_user_agent_index = 0
    /\ yc_session_env = None
    /\ ua_log = <<>>

\* A scroll call alone: the other components stay idle.
InitScroll ==
    ScrollInit /\ RetryIdle /\ CleanIdle /\ SearchIdle /\ ParamsIdle
    /\ BooleanIdle
    /\ ExtractIdle
    /\ AuthIdle

ScrollStep ==
    \/ /\ \E out \in FetchOutcomes : InitialFetch(out)
       /\ UNCHANGED <<retryVars, cleanVars, searchVars, paramsVars,
                   boolVars, extractVars, authVars>>
    \/ /\ \E out \in FetchOutcomes : ScrollIteration(out)
       /\ UNCHANGED <<retryVars, cleanVars, searchVars, paramsVars,
                   boolVars, extractVars, authVars>>

\* One call of scrape_with_infinite_scroll, with any parameters.
SpecScroll == InitScroll /\ [][ScrollStep]_vars

\* The code is single-threaded and every fetch returns or raises within its
\* timeout, so a call that can take a step takes it.
SpecScrollFair == SpecScroll /\ WF_vars(ScrollStep)

\* A cleaning call alone.
InitClean ==
    CleanInit /\ ScrollIdle /\ RetryIdle /\ SearchIdle /\ ParamsIdle
    /\ BooleanIdle
    /\ ExtractIdle
    /\ AuthIdle

CleanStep ==
    \/ /\ CleanCompaniesCall
       /\ UNCHANGED <<scrollVars, retryVars, searchVars, paramsVars,
                   boolVars, extractVars, authVars>>
    \/ /\ CleanJobsCall
       /\ UNCHANGED <<scrollVars, retryVars, searchVars, paramsVars,
                   boolVars, extractVars, authVars>>

\* One call of clean_companies or of clean_jobs on a list of records.
SpecClean == InitClean /\ [][CleanStep]_vars

\* A retry-wrapper call alone.
InitRetry ==
    RetryInit /\ ScrollIdle /\ CleanIdle /\ SearchIdle /\ ParamsIdle
    /\ BooleanIdle
    /\ ExtractIdle
    /\ AuthIdle

RetryStep ==
    \/ /\ \E resp \in ScrapeResponses : ScrapeAttempt(resp)
       /\ UNCHANGED <<scrollVars, cleanVars, searchVars, paramsVars,
                   boolVars, extractVars, authVars>>
    \/ /\ \E resp \in GenerateResponses : GenerateAttempt(resp)
       /\ UNCHANGED <<scrollVars, cleanVars, searchVars, paramsVars,
                   boolVars, extractVars, authVars>>

\* One call of either retry wrapper.
SpecRetry == InitRetry /\ [][RetryStep]_vars

\* A scrape_search call alone.
InitSearch ==
    SearchInit /\ ScrollIdle /\ RetryIdle /\ CleanIdle /\ ParamsIdle
    /\ BooleanIdle
    /\ ExtractIdle
    /\ AuthIdle

SearchStep ==
    \/ /\ SearchStart
       /\ UNCHANGED <<scrollVars, retryVars, cleanVars, paramsVars,
                   boolVars, extractVars, authVars>>
    \/ /\ \E outcome \in CompanyOutcomes : ScrapeJobsForCompany(outcome)
       /\ UNCHANGED <<scrollVars, retryVars, cleanVars, paramsVars,
                   boolVars, extractVars, authVars>>

\* One call of scrape_search.
SpecSearch == InitSearch /\ [][SearchStep]_vars

\* A url built from SearchParams and parsed back, alone.
InitParams ==
    ParamsInit /\ ScrollIdle /\ RetryIdle /\ CleanIdle /\ SearchIdle
    /\ BooleanIdle
    /\ ExtractIdle
    /\ AuthIdle

ParamsStep ==
    \/ /\ BuildSearchUrl
       /\ UNCHANGED <<scrollVars, retryVars, cleanVars, searchVars,
                   boolVars, extractVars, authVars>>
    \/ /\ ParseSearchUrl
       /\ UNCHANGED <<scrollVars, retryVars, cleanVars, searchVars,
                   boolVars, extractVars, authVars>>

\* build_search_url applied to a SearchParams value, from_url to the result.
SpecParams == InitParams /\ [][ParamsStep]_vars

\* A _parse_boolean call alone.
InitBoolean ==
    BooleanInit /\ ScrollIdle /\ RetryIdle /\ CleanIdle /\ SearchIdle
    /\ ParamsIdle
    /\ ExtractIdle
    /\ AuthIdle

BooleanStep ==
    /\ ParseBoolean
    /\ UNCHANGED <<scrollVars, retryVars, cleanVars, searchVars,
                   paramsVars, extractVars, authVars>>

\* _parse_boolean applied to one value.
SpecBoolean == InitBoolean /\ [][BooleanStep]_vars

\* An extraction call alone.
InitExtract ==
    ExtractInit /\ ScrollIdle /\ RetryIdle /\ CleanIdle /\ SearchIdle
    /\ ParamsIdle
    /\ BooleanIdle
    /\ AuthIdle

ExtractStep ==
    \/ /\ ExtractCompaniesCall
       /\ UNCHANGED <<scrollVars, retryVars, cleanVars, searchVars,
                   paramsVars, boolVars, authVars>>
    \/ /\ ExtractJobsCall
       /\ UNCHANGED <<scrollVars, retryVars, cleanVars, searchVars,
                   paramsVars, boolVars, authVars>>

\* One call of extract_companies or of extract_jobs.
SpecExtract == InitExtract /\ [][ExtractStep]_vars

\* An AuthHandler alone.
InitAuth ==
    AuthInit /\ ScrollIdle /\ RetryIdle /\ CleanIdle /\ SearchIdle
    /\ ParamsIdle
    /\ BooleanIdle
    /\ ExtractIdle

AuthStep ==
    \/ /\ GetUserAgent
       /\ UNCHANGED <<scrollVars, retryVars, cleanVars, searchVars,
                      paramsVars, boolVars, extractVars>>
    \/ /\ GetHeaders
       /\ UNCHANGED <<scrollVars, retryVars, cleanVars, searchVars,
                      paramsVars, boolVars, extractVars>>
    \/ /\ \E cookie \in CookieSamples : SetSessionCookie(cookie)
       /\ UNCHANGED <<scrollVars, retryVars, cleanVars, searchVars,
                      paramsVars, boolVars, extractVars>>

\* An AuthHandler from its construction on, under any sequence of calls.
SpecAuth == InitAuth /\ [][AuthStep]_vars

\* A call of scrape_search, scrape_from_url or scrape_company alone.
InitEntry ==
    EntryInit /\ ScrollIdle /\ RetryIdle /\ CleanIdle /\ ParamsIdle
    /\ BooleanIdle
    /\ ExtractIdle
    /\ AuthIdle

EntryStep ==
    \/ /\ ScrapeFromUrl
       /\ UNCHANGED <<scrollVars, retryVars, cleanVars, paramsVars,
                   boolVars, extractVars, authVars>>
    \/ /\ SearchStart
       /\ UNCHANGED <<scrollVars, retryVars, cleanVars, paramsVars,
                   boolVars, extractVars, authVars>>
    \/ /\ \E outcome \in CompanyOutcomes : ScrapeJobsForCompany(outcome)
       /\ UNCHANGED <<scrollVars, retryVars, cleanVars, paramsVars,
                   boolVars, extractVars, authVars>>
    \/ /\ \E outcome \in CompanyOutcomes : ScrapeCompany(outcome)
       /\ UNCHANGED <<scrollVars, retryVars, cleanVars, paramsVars,
                   boolVars, extractVars, authVars>>

\* One call of any entry point.
SpecEntry == InitEntry /\ [][EntryStep]_vars

----------------------------------------------------------------------------
\* C1: when the initial content is non-empty and every scroll fetch returns
\* content identical to it, at most content_check_interval + 2 iterations
\* run, and if max_scrolls is larger than that the loop stops on a stall
\* rather than by running all max_scrolls iterations.
C1_IdenticalContentStopsEarly ==
    (sc_pc # "start" /\ sc_same /\ last_length > 0) =>
        /\ scroll_num <= content_check_interval + 2
        /\ (sc_pc = "returned" /\ max_scrolls > content_check_interval + 2)
               => sc_exit = "stall"

C1_Witness ==
    /\ sc_pc = "returned" /\ sc_same /\ last_length > 0
    /\ sc_exit = "stall"
    /\ scroll_num = content_check_interval + 2
    /\ max_scrolls > scroll_num

\* C2: every exit path returns the result of the most recent fetch that
\* completed (all iterations ran, a stall stopped the loop, or a fetch
\* raised); the empty dict is returned only when the initial fetch raised.
C2_ReturnsLastCompletedFetch ==
    sc_pc = "returned" =>
        /\ sc_return.kind \in {"result", "empty_dict"}
        /\ sc_return.kind = "empty_dict" <=> sc_exit = "initial_raised"
        /\ sc_return.kind = "result" =>
               /\ sc_return.value = result
               /\ sc_return.value.seq = completed
               /\ completed >= 1

C2_Witness ==
    /\ sc_pc = "returned" /\ sc_exit = "scroll_raised"
    /\ scroll_fetches >= 2
    /\ sc_return.kind = "result" /\ sc_return.value.seq = completed
    /\ completed = scroll_fetches

\* C3: one call issues exactly one initial fetch; a zero-length initial
\* content returns at once with no scroll fetch; otherwise at most
\* max_scrolls scroll fetches are issued, one per iteration, and the call
\* always returns.
C3_Counts ==
    /\ initial_fetches = (IF sc_pc = "start" THEN 0 ELSE 1)
    /\ scroll_fetches = scroll_num
    /\ scroll_fetches <= max_scrolls
    /\ sc_exit = "empty" => (sc_pc = "returned" /\ scroll_fetches = 0)
    /\ (sc_pc # "start" /\ result.seq = 1 /\ ~result.md_none
           /\ Len(result.markdown) = 0 /\ scroll_fetches = 0)
          => (sc_pc = "returned" /\ sc_exit = "empty")

C3_FetchBudgetAndTermination == [](C3_Counts) /\ <>(sc_pc = "returned")

C3_Witness ==
    /\ sc_pc = "returned" /\ sc_exit = "completed"
    /\ max_scrolls >= 3
    /\ scroll_fetches = max_scrolls
    /\ initial_fetches = 1

----------------------------------------------------------------------------
CallPositions == { i \in 1..Len(rw_log) : rw_log[i].ev = "call" }
SleepPositions == { i \in 1..Len(rw_log) : rw_log[i].ev = "sleep" }
Invocations == Cardinality(CallPositions)

\* The delays slept so far, in order.
RECURSIVE DelaysOf(_)
DelaysOf(log) ==
    IF log = <<>> THEN <<>>
    ELSE IF Head(log).ev = "sleep"
         THEN <<Head(log).delay>> \o DelaysOf(Tail(log))
         ELSE DelaysOf(Tail(log))

\* C4: the gateway is invoked at most max_retries times, attempt after
\* attempt, and never again after the first attempt that succeeds: a success
\* on attempt k means exactly k invocations.
C4_AtMostMaxRetriesNoCallAfterSuccess ==
    /\ Invocations <= max_retries
    /\ \A i \in CallPositions :
          /\ rw_log[i].attempt = Cardinality({j \in CallPositions : j <= i})
          /\ ~rw_log[i].failed => i = Len(rw_log)
    /\ rw_pc = "returned" =>
          /\ rw_log # <<>>
          /\ rw_log[Len(rw_log)].ev = "call"
          /\ ~rw_log[Len(rw_log)].failed
          /\ rw_value.attempt = Invocations
          /\ rw_log[Len(rw_log)].attempt = Invocations
    /\ rw_pc = "running" => \A i \in CallPositions : rw_log[i].failed

C4_Witness ==
    /\ rw_pc = "returned"
    /\ Invocations = 3
    /\ max_retries > 3
    /\ rw_value.attempt = 3

AllAttemptsFailed ==
    /\ Invocations = max_retries
    /\ \A i \in CallPositions : rw_log[i].failed

LastCall == rw_log[CHOOSE i \in CallPositions : \A j \in CallPositions : j <= i]

C6_ExhaustionRaisesLastError ==
    /\ AllAttemptsFailed =>
          /\ rw_pc = "raised"
          /\ rw_value = NoValue
          /\ rw_raised.attempt = max_retries
          /\ rw_raised.cause = "exception" <=> LastCall.shape = "raise"
          /\ rw_raised.cause # "none"
    /\ rw_pc = "raised" => AllAttemptsFailed

C6_Witness ==
    /\ rw_pc = "raised"
    /\ max_retries = 3
    /\ rw_log[1].shape = "raise"
    /\ LastCall.shape # "raise"
    /\ rw_raised.attempt = 3
    /\ rw_raised.cause # "exception"

----------------------------------------------------------------------------
\* C7: the list clean_companies returns has no two companies with the same
\* lower-cased trimmed name and no two with the same non-empty
\* yc_profile_url.
C7_NoDuplicateNameOrProfileUrl ==
    cl_pc = "companies_done" =>
        \A i, j \in 1..Len(companies_out) :
            i < j =>
                /\ Strip(Lower(companies_out[i].name))
                      # Strip(Lower(companies_out[j].name))
                /\ Truthy(companies_out[i].yc_profile_url) =>
                      companies_out[i].yc_profile_url
                         # companies_out[j].yc_profile_url

\* C8: clean_jobs returns exactly one job for each distinct lower-cased
\* trimmed (company_name, title) pair among the input jobs whose required
\* fields survive cleaning.
PairOf(job) == <<Strip(Lower(job.company_name)), Strip(Lower(job.title))>>

SurvivingPairs ==
    { PairOf(jobs_in[k]) :
        k \in { n \in 1..Len(jobs_in) : _clean_job(jobs_in[n]) # <<>> } }

C8_OneJobPerDistinctPair ==
    cl_pc = "jobs_done" =>
        /\ Len(jobs_out) = Cardinality(SurvivingPairs)
        /\ \A i, j \in 1..Len(jobs_out) :
              i < j => PairOf(jobs_out[i]) # PairOf(jobs_out[j])

\* C9: clean_companies drops a company whose website url equals that of an
\* earlier kept company even when the names differ, so the returned list
\* never holds two companies with the same url.
C9_NoDuplicateWebsiteUrl ==
    cl_pc = "companies_done" =>
        \A i, j \in 1..Len(companies_out) :
            (i < j /\ Truthy(companies_out[i].url))
                => companies_out[i].url # companies_out[j].url

----------------------------------------------------------------------------
\* The (company_name, title) of each job of a list, in order.
NamesAndTitles(jobs) ==
    [k \in 1..Len(jobs) |-> <<jobs[k].company_name, jobs[k].title>>]

\* The jobs found for the companies whose iteration did not fail, in the
\* order of the company list: for each logged iteration that ended without
\* an exception and with extracted job blocks, one entry per block.
RECURSIVE FoundJobs(_)
FoundJobs(log) ==
    IF log = <<>> THEN <<>>
    ELSE LET e == Head(log)
             cname == ss_companies[e.index].name
         IN  (IF e.raised THEN <<>>
              ELSE [k \in 1..Len(e.jobs_data) |->
                       <<cname, Strip(e.jobs_data[k].title)>>])
             \o FoundJobs(Tail(log))

FailedKinds == {"fetch_raised", "extract_failed", "context_raised"}

----------------------------------------------------------------------------
\* C11: scrape_search, scrape_from_url and scrape_company never raise to the
\* caller: a call that has not returned can always take its next step, which
\* ends in a returned pair whatever the gateways do, and when the page
\* fetch failed after all retries or brought no content the pair is empty
\* (no company, no job) and the Extraction Gateway was not invoked.
C11_NoContentReturnsEmptyPair ==
    /\ ss_pc \in {"url", "start", "jobs", "returned"}
    /\ ss_pc = "url" => ss_op = "from_url"
    /\ ss_pc = "jobs" =>
          (ss_op \in {"search", "from_url"} /\ ss_i \in 1..Len(ss_companies))
    /\ ss_pc = "returned" =>
          /\ ss_return.returned
          /\ ss_content # "content" =>
                /\ ss_return.companies = <<>>
                /\ ss_return.jobs = <<>>
                /\ ss_extractions = 0

C11_Witness ==
    /\ ss_pc = "returned"
    /\ ss_op = "company"
    /\ ss_content = "raise"
    /\ ss_fetches = 1
    /\ ss_extractions = 0
    /\ ss_return = ReturnPair(<<>>, <<>>)

----------------------------------------------------------------------------
\* What cleaning promises of a url field and of a text field.
ValidUrl(url) ==
    /\ StartsWith(url, Http) \/ StartsWith(url, Https)
    /\ Len(url) >= MinUrlLen
    /\ \A i \in 1..Len(url) : url[i] # " "

UrlValidOrAbsent(url) == ~Truthy(url) \/ ValidUrl(url)

NoPlaceholder(text) == ~Truthy(text) \/ Lower(Strip(text)) \notin placeholders

\* C12: the company scrape_company returns went through the Normalizer, as
\* its jobs did: it carries no placeholder text, its url fields are valid or
\* absent and its job_count is not negative.
C12_ScrapeCompanyReturnsCleanedCompany ==
    (ss_pc = "returned" /\ ss_op = "company" /\ ss_return.companies # <<>>)
       => LET company == ss_return.companies[1] IN
          /\ NoPlaceholder(company.name)
          /\ NoPlaceholder(company.description)
          /\ NoPlaceholder(company.industry)
          /\ NoPlaceholder(company.team_size)
          /\ UrlValidOrAbsent(company.url)
          /\ UrlValidOrAbsent(company.yc_profile_url)
          /\ UrlValidOrAbsent(company.jobs_url)
          /\ company.job_count >= 0

----------------------------------------------------------------------------
\* C13: scrape_from_url accepts only urls whose host is the job board's: for
\* a url on another host it issues no fetch, does not go on to search, and
\* returns empty lists.
C13_OtherHostIssuesNoFetch ==
    (ss_op = "from_url" /\ ~is_yc_url(ss_url)) =>
        /\ ss_fetches = 0
        /\ ss_pc \in {"url", "returned"}
        /\ ss_pc = "returned" => ss_return = ReturnPair(<<>>, <<>>)

----------------------------------------------------------------------------
\* The job the claim expects for one extracted block of a company: the
\* company's fields filled in where the block left them absent, then
\* cleaned.
ExpectedJob(data, company) ==
    _clean_job(WithContext(JobFromData(data, company.name), company))

\* The iterations in which the jobs of a company were extracted.
ExtractedAt == { k \in 1..Len(ss_log) :
                   ss_log[k].kind \in {"extended", "context_raised"} }

\* C14: in scrape_search every returned job is an extracted job of a company
\* of the result with that company's url, description, industry and team
\* size filled in where the job left them absent and its own values kept;
\* and with one extracted company (nonzero job count, url set) and one
\* extracted job the result is one cleaned company and one cleaned job with
\* these fields populated.
C14_JobsCarryCompanyContext ==
    (ss_pc = "returned" /\ ss_op = "search") =>
        /\ \A r \in 1..Len(ss_return.jobs) :
              \E k \in ExtractedAt :
                 \E n \in 1..Len(ss_log[k].jobs_data) :
                    <<ss_return.jobs[r]>> =
                       ExpectedJob(ss_log[k].jobs_data[n], ss_companies[k])
        /\ (/\ Len(ss_extracted) = 1
            /\ Len(ss_companies) = 1
            /\ Truthy(ss_companies[1].url)
            /\ ExtractedAt = {1}
            /\ Len(ss_log[1].jobs_data) = 1)
           => /\ Len(ss_return.companies) = 1
              /\ ss_return.jobs =
                    ExpectedJob(ss_log[1].jobs_data[1], ss_companies[1])
              /\ ss_return.jobs[1].company_url # None

----------------------------------------------------------------------------
\* C15: for every SearchParams value p, from_url(build_search_url(p)) equals
\* p: the parse does not raise, every enum field comes back as it was and
\* every free-text field passes through verbatim.
C15_FromUrlInvertsBuildSearchUrl ==
    ps_pc = "parsed" => ps_parsed = <<ps_params>>

----------------------------------------------------------------------------
\* The url fields of a Company and of a Job.
CompanyUrlFields == {"url", "yc_profile_url", "jobs_url", "logo_url"}
JobUrlFields == {"application_url", "company_url"}

\* What cleaning may make of one url field: a field that is not set is left
\* as it is; a text with an http(s) scheme is kept; a text starting with //
\* gets https: and a text starting with www. gets https:// prepended; each
\* of the three becomes absent if it fails the check; any other text
\* becomes absent.
UrlCleanedTo(raw, cleaned) ==
    IF ~Truthy(raw) THEN cleaned = raw
    ELSE LET u == Strip(raw)
             candidate ==
                 IF StartsWith(u, Http) \/ StartsWith(u, Https) THEN u
                 ELSE IF StartsWith(u, <<"/","/">>)
                      THEN <<"h","t","t","p","s",":">> \o u
                 ELSE IF StartsWith(u, Www) THEN Https \o u
                 ELSE None
         IN  cleaned = IF candidate # None /\ ValidUrl(candidate)
                       THEN candidate ELSE None

\* The returned record comes from an input record, url field by url field.
CleanedFromSome(record, inputs, fields) ==
    \E i \in 1..Len(inputs) :
        \A f \in fields : UrlCleanedTo(inputs[i][f], record[f])

----------------------------------------------------------------------------
\* C17: _parse_boolean returns a literal boolean unchanged, TRUE for the
\* strings true, yes, 1, on and enabled in any letter case, and FALSE for
\* every other value, whatever its type.
C17_ParseBooleanOnlyTrueStrings ==
    pb_pc = "done" =>
        pb_result = IF pb_value.type = "bool" THEN pb_value.b
                    ELSE /\ pb_value.type = "str"
                         /\ Lower(pb_value.s) \in true_strings

----------------------------------------------------------------------------
\* The raw items an extractor has to work on: the parsed list, or the list
\* an object holds under the extractor's key; nothing for any other value
\* and when the gateway failed.
ItemsOf(response, key) ==
    IF response.kind = "list" THEN response.items
    ELSE IF /\ response.kind = "object"
            /\ response.key = key
            /\ response.inner = "list"
         THEN response.items
    ELSE <<>>

\* The item has its required field.
CompanyItemHasName(item) == item.type = "object" /\ Truthy(item.name)
JobItemHasTitle(item) == item.type = "object" /\ Truthy(item.title)

\* A record can be built from the item: it has its required field and, for
\* a company, no website url that the Company model rejects.
CompanyItemBuilds(item) ==
    /\ CompanyItemHasName(item)
    /\ (Truthy(item.url) /\ StartsWith(Strip(item.url), Http))
          => HttpUrlAccepts(Strip(item.url))
    /\ (Truthy(item.url) /\ StartsWith(Strip(item.url), Https))
          => HttpUrlAccepts(Strip(item.url))

\* The records are those of the items, one each and in the same order.
CompaniesOfItems(companies, items) ==
    /\ Len(companies) = Len(items)
    /\ \A k \in 1..Len(items) : companies[k].name = Strip(items[k].name)

JobsOfItems(jobs, items) ==
    /\ Len(jobs) = Len(items)
    /\ \A k \in 1..Len(items) : jobs[k].title = Strip(items[k].title)

\* C18 (amended): extract_companies and extract_jobs always return a list.
\* A gateway failure, an unparsable response, and a parsed value that is
\* neither a list nor an object holding a list under companies (jobs) yield
\* the empty list; from a list, also one unwrapped from such an object, each
\* item no record can be built from is dropped on its own and every other
\* item is returned, in the original order.
C18_ExtractorsDropItemsIndividually ==
    /\ ex_pc = "companies_done" =>
          CompaniesOfItems(ex_result,
              SelectSeq(ItemsOf(ex_response, "companies"),
                        CompanyItemBuilds))
    /\ ex_pc = "jobs_done" =>
          JobsOfItems(ex_result,
              SelectSeq(ItemsOf(ex_response, "jobs"), JobItemHasTitle))

\* C18 as stated: a parsed value that is not a list yields the empty list,
\* and from a list exactly the items failing required-field validation are
\* dropped.
C18_NonListYieldsEmpty ==
    /\ ex_pc \in {"companies_done", "jobs_done"} =>
          (ex_response.kind # "list" => ex_result = <<>>)
    /\ (ex_pc = "companies_done" /\ ex_response.kind = "list") =>
          CompaniesOfItems(ex_result,
              SelectSeq(ex_response.items, CompanyItemHasName))
    /\ (ex_pc = "jobs_done" /\ ex_response.kind = "list") =>
          JobsOfItems(ex_result,
              SelectSeq(ex_response.items, JobItemHasTitle))

\* A list whose first item has no name and whose second has one: the
\* second alone is returned.
C18_Witness ==
    /\ ex_pc = "companies_done"
    /\ ex_response.kind = "list"
    /\ ex_response.items = << CompanyItem("object", None, UrlT),
                              CompanyItem("object", NameCd, UrlT) >>
    /\ Len(ex_result) = 1
    /\ ex_result[1].name = NameCd

----------------------------------------------------------------------------
\* The records a cleaning call was given and the ones it returned.
CleanInput == IF cl_pc = "companies_done" THEN companies_in ELSE jobs_in
CleanOutput == IF cl_pc = "companies_done" THEN companies_out ELSE jobs_out

\* C19: clean_companies and clean_jobs leave their input unchanged: after
\* the call the input list holds the same instances in the same order and
\* every field of each has the value it had before; every returned record
\* is a newly constructed instance, none of the input instances.
C19_CleaningLeavesInputUnchanged ==
    cl_pc \in {"companies_done", "jobs_done"} =>
        /\ cl_in_ids = IdsOf(CleanInput)
        /\ \A k \in 1..Len(CleanInput) :
               cl_heap[cl_in_ids[k]] = CleanInput[k]
        /\ Len(cl_out_ids) = Len(CleanOutput)
        /\ \A k \in 1..Len(cl_out_ids) :
               /\ cl_heap[cl_out_ids[k]] = CleanOutput[k]
               /\ \A j \in 1..Len(cl_in_ids) : cl_out_ids[k] # cl_in_ids[j]
               /\ \A j \in 1..Len(cl_out_ids) :
                      cl_out_ids[j] = cl_out_ids[k] => j = k

\* Two companies given, the second with a negative job count and url fields
\* that cleaning drops; both are returned as new instances and the second
\* input instance still holds its raw values.
C19_Witness ==
    /\ cl_pc = "companies_done"
    /\ Len(companies_in) = 2
    /\ Len(companies_out) = 2
    /\ companies_in[2].job_count < 0
    /\ companies_out[2].job_count = 0
    /\ companies_out[2] # companies_in[2]
    /\ cl_heap[cl_in_ids[2]] = companies_in[2]
    /\ cl_out_ids = <<3, 4>>

----------------------------------------------------------------------------
\* `if 1800 <= year <= 2030` in CompanyExtractor._clean_company_data
MinFoundedYear == 1800
MaxFoundedYear == 2030

\* A founding year that is absent or within the range.
FoundedYearInRange(founded_year) ==
    founded_year = <<>>
    \/ (founded_year[1] >= MinFoundedYear
        /\ founded_year[1] <= MaxFoundedYear)

\* C20: every Company returned by clean_companies has job_count >= 0 and a
\* founded_year that is absent or within 1800..2030.
C20_JobCountAndFoundedYearInRange ==
    cl_pc = "companies_done" =>
        \A k \in 1..Len(companies_out) :
            /\ companies_out[k].job_count >= 0
            /\ FoundedYearInRange(companies_out[k].founded_year)

----------------------------------------------------------------------------
\* C21: every result _scrape_with_retries returns for a successful fetch
\* has the same fields success, markdown, html and metadata, whichever
\* response shape the gateway produced.
C21_ReturnedResultHasNormalizedFields ==
    (rw_kind = "fetch" /\ rw_pc = "returned") =>
        rw_value.fields = NormalizedFields

----------------------------------------------------------------------------
\* The iterations of _scrape_jobs_for_companies that fetched a jobs page.
JobPageFetches == { k \in 1..Len(ss_log) : FetchIssued(ss_log[k].kind) }

\* C22: when max_companies is given, scrape_search returns at most
\* max_companies companies and fetches the jobs page of at most
\* max_companies companies, whatever number of companies the extraction
\* gateway returns.
C22_AtMostMaxCompaniesProcessed ==
    (/\ ss_pc = "returned"
     /\ ss_op \in {"search", "from_url"}
     /\ max_companies > 0) =>
        /\ Len(ss_return.companies) <= max_companies
        /\ Cardinality(JobPageFetches) <= max_companies

----------------------------------------------------------------------------
\* The list entry the k-th call of a round robin from index 0 hands out.
RoundRobinEntry(k) == user_agents[((k - 1) % Len(user_agents)) + 1]

\* C23: the user agents are handed out in round-robin order: the index is
\* always within 0..len(user_agents)-1, every call of get_user_agent, also
\* through get_headers, returns the entry at the index and moves the index
\* on by one modulo the length, so consecutive calls return different
\* entries and the k-th and the (k + len)-th call return the same one.
C23_UserAgentsRoundRobin ==
    /\ current_user_agent_index \in 0..(Len(user_agents) - 1)
    /\ current_user_agent_index = Len(ua_log) % Len(user_agents)
    /\ \A k \in 1..Len(ua_log) : ua_log[k].agent = RoundRobinEntry(k)
    /\ \A k \in 1..(Len(ua_log) - 1) : ua_log[k].agent # ua_log[k + 1].agent
    /\ \A k \in 1..(Len(ua_log) - Len(user_agents)) :
           ua_log[k].agent = ua_log[k + Len(user_agents)].agent

\* Five calls, the last through get_headers: the fifth returns the first
\* entry again.
C23_Witness ==
    /\ Len(ua_log) = 5
    /\ ua_log[5].via = "get_headers"
    /\ ua_log[5].agent = ua_log[1].agent
    /\ ua_log[4].agent # ua_log[1].agent
    /\ current_user_agent_index = 1

\* C30: is_authenticated() is true exactly when get_cookies() holds the
\* _yc_session cookie.
C30_AuthenticatedIffSessionCookieSent ==
    is_authenticated(session_cookie)
        <=> "_yc_session" \in get_cookies(session_cookie)

----------------------------------------------------------------------------
\* The scroll loop, step by step.

\* A step that is one loop iteration whose fetch returned content.
ContentIteration ==
    /\ sc_pc = "loop"
    /\ scroll_num' = scroll_num + 1
    /\ completed' = completed + 1
    /\ ~result'.md_none

\* An iteration on which the content is compared (line 82).
CheckIteration ==
    ContentIteration /\ (scroll_num' % content_check_interval) = 0

LengthIteration ==
    ContentIteration /\ (scroll_num' % content_check_interval) # 0

\* The iteration took the new content as the content to compare with from
\* now on (lines 91-92); accepted content is longer than the old one.
GrowthAccepted ==
    last_content' = result'.markdown /\ last_content' # last_content

\* The part of the new content beyond the length of last_content.
NewSuffix == DropFirst(result'.markdown, Len(last_content))

\* C24: on a check iteration growth counts as genuine exactly when the new
\* content is longer than last_content, the suffix beyond it is longer than
\* min_new_content_threshold and the suffix holds at least 3 indicator
\* occurrences; a suffix whose length equals the threshold is not genuine
\* growth.
C24_GenuineGrowthExceedsThreshold ==
    [][CheckIteration =>
        (GrowthAccepted <=>
            /\ Len(result'.markdown) > Len(last_content)
            /\ Len(NewSuffix) > min_new_content_threshold
            /\ indicator_count(NewSuffix) >= MinIndicators)]_vars

\* C24, as the code decides it: on a check iteration growth counts as
\* genuine exactly when the new content is longer than last_content, the
\* suffix beyond it has at least min_new_content_threshold characters and
\* the suffix holds at least 3 indicator occurrences.
C24_GenuineGrowthAtLeastThreshold ==
    [][CheckIteration =>
        (GrowthAccepted <=>
            /\ Len(result'.markdown) > Len(last_content)
            /\ Len(NewSuffix) >= min_new_content_threshold
            /\ indicator_count(NewSuffix) >= MinIndicators)]_vars

\* The first scroll is a check iteration and has accepted a listing whose
\* length equals the threshold.
C24_Witness ==
    /\ scroll_num = 1
    /\ content_check_interval = 1
    /\ min_new_content_threshold = Len(Listing)
    /\ result.seq = 2
    /\ last_content = PageBase \o Listing
    /\ last_length = Len(PageBase) + min_new_content_threshold
    /\ no_change_count = 0

\* The check of lines 84-88 on the content this step fetched.
GenuineGrowth ==
    _has_significant_new_content(last_content, result'.markdown,
                                 min_new_content_threshold)

\* C25: a check iteration that detects genuine growth ends with
\* no_change_count = 0 and with last_content / last_length equal to the new
\* content and its length; a check iteration without genuine growth leaves
\* last_content / last_length unchanged, raises no_change_count by 1 and
\* stops the loop before any further fetch as soon as no_change_count has
\* reached 2; a non-check iteration never changes last_content or
\* last_length.  (The counter is kept in halves.)
C25_CheckIterationUpdates ==
    [][/\ (CheckIteration /\ GenuineGrowth) =>
            /\ no_change_count' = 0
            /\ last_content' = result'.markdown
            /\ last_length' = Len(result'.markdown)
       /\ (CheckIteration /\ ~GenuineGrowth) =>
            /\ UNCHANGED <<last_content, last_length>>
            /\ no_change_count' = no_change_count + 2
            /\ (no_change_count' >= 2 * CheckStopCount
                    => sc_pc' = "returned" /\ sc_exit' = "stall")
       /\ LengthIteration => UNCHANGED <<last_content, last_length>>
      ]_vars

\* What lines 109-111 add to the counter (in halves) on the content this
\* step fetched.
MinimalGrowthExtra ==
    IF MinimalGrowth(Len(result'.markdown) - last_length, scroll_num')
    THEN 2 ELSE 0

\* C25, as the code runs it: the minimal-growth rule of lines 109-115 also
\* applies to a check iteration that did not stop.  A check iteration with
\* genuine growth takes over the new content and its length and ends with
\* no_change_count = 0, or 1 when the rule applies; one without genuine
\* growth leaves last_content / last_length unchanged, raises
\* no_change_count by 1 and stops the loop when it has reached 2, and
\* otherwise raises it by a further 1 when the rule applies; a check
\* iteration stops the loop in no other way, and a non-check iteration
\* never changes last_content or last_length.
C25_CheckIterationThenMinimalGrowth ==
    [][/\ (CheckIteration /\ GenuineGrowth) =>
            /\ no_change_count' = MinimalGrowthExtra
            /\ last_content' = result'.markdown
            /\ last_length' = Len(result'.markdown)
            /\ sc_exit' # "stall"
       /\ (CheckIteration /\ ~GenuineGrowth) =>
            /\ UNCHANGED <<last_content, last_length>>
            /\ IF no_change_count + 2 >= 2 * CheckStopCount
               THEN /\ no_change_count' = no_change_count + 2
                    /\ sc_pc' = "returned"
                    /\ sc_exit' = "stall"
               ELSE /\ no_change_count' =
                           no_change_count + 2 + MinimalGrowthExtra
                    /\ sc_exit' # "stall"
       /\ LengthIteration => UNCHANGED <<last_content, last_length>>
      ]_vars

\* The sixth scroll was a check iteration without genuine growth that did
\* not stop: the counter stands at 2.5, which a check alone cannot leave
\* behind without stopping.
C25_Witness ==
    /\ scroll_num = 6
    /\ content_check_interval = 2
    /\ result.seq = 7
    /\ no_change_count = 5
    /\ sc_exit = "completed"

\* delta = new content length - last_length, for the content this step
\* fetched.
Delta == Len(result'.markdown) - last_length

\* C26: on a non-check iteration delta > min_new_content_threshold sets
\* no_change_count to 0, otherwise delta < 10 adds 0.5, and any other delta
\* leaves it unchanged; when in addition delta < 10 and more than 5 scrolls
\* have elapsed a further 1 is added and the loop stops once
\* no_change_count has reached 3; the extra increment is never applied
\* during the first 5 scrolls, and nothing else stops a non-check
\* iteration.  (The counter is kept in halves.)
C26_LengthHeuristicOnNonCheckIteration ==
    [][LengthIteration =>
        LET after_delta ==
                IF Delta > min_new_content_threshold THEN 0
                ELSE IF Delta < SmallDelta THEN no_change_count + 1
                ELSE no_change_count
            extra == Delta < SmallDelta /\ scroll_num' > MinScrollsForStop
        IN  /\ no_change_count' = after_delta + (IF extra THEN 2 ELSE 0)
            /\ scroll_num' <= MinScrollsForStop =>
                   no_change_count' <= no_change_count + 1
            /\ (sc_exit' = "stall") <=>
                   (extra /\ no_change_count' >= 2 * GrowthStopCount)
            /\ sc_exit' = "stall" => sc_pc' = "returned"
      ]_vars

\* The sixth scroll, a non-check iteration, added 0.5 and 1 to a counter of
\* 2.5 and stopped the loop.
C26_Witness ==
    /\ scroll_num = 6
    /\ content_check_interval = 7
    /\ result.seq = 7
    /\ no_change_count = 8
    /\ sc_pc = "returned"
    /\ sc_exit = "stall"

----------------------------------------------------------------------------
\* A gateway invocation whose response signals logical failure: a success
\* flag that is false, no response at all, an empty generation text.
SignalsFailure(e) ==
    /\ e.ev = "call"
    /\ \/ e.success = "false"
       \/ e.shape = "none"
       \/ e.empty

\* C27: a gateway response that signals logical failure is never returned
\* by a retry wrapper as a success: whatever its shape, it counts as a
\* failed attempt, after which the wrapper tries again or raises the
\* terminal exception.
C27_LogicalFailureNeverReturned ==
    \A i \in 1..Len(rw_log) :
        SignalsFailure(rw_log[i]) =>
            /\ rw_log[i].failed
            /\ i = Len(rw_log) => rw_pc \in {"running", "raised"}

----------------------------------------------------------------------------
\* Two Company records with the same identity key: the lower-cased trimmed
\* name or, secondarily, the profile url.
SameCompanyKey(a, b) ==
    \/ Strip(Lower(a.name)) = Strip(Lower(b.name))
    \/ Truthy(a.yc_profile_url) /\ a.yc_profile_url = b.yc_profile_url

\* Two Job records with the same identity key: the lower-cased trimmed
\* (company_name, title) pair.
SameJobKey(a, b) ==
    /\ Strip(Lower(a.company_name)) = Strip(Lower(b.company_name))
    /\ Strip(Lower(a.title)) = Strip(Lower(b.title))

\* The positions of the input records a first-occurrence-wins pass keeps:
\* a record is kept when it survives cleaning and no record kept before it
\* has its identity key.
RECURSIVE FirstCompanyPositions(_, _, _)
FirstCompanyPositions(companies, i, kept) ==
    IF i > Len(companies) THEN kept
    ELSE IF /\ _clean_company(companies[i]) # <<>>
            /\ \A k \in 1..Len(kept) :
                   ~SameCompanyKey(companies[kept[k]], companies[i])
         THEN FirstCompanyPositions(companies, i + 1, Append(kept, i))
         ELSE FirstCompanyPositions(companies, i + 1, kept)

RECURSIVE FirstJobPositions(_, _, _)
FirstJobPositions(jobs, i, kept) ==
    IF i > Len(jobs) THEN kept
    ELSE IF /\ _clean_job(jobs[i]) # <<>>
            /\ \A k \in 1..Len(kept) : ~SameJobKey(jobs[kept[k]], jobs[i])
         THEN FirstJobPositions(jobs, i + 1, Append(kept, i))
         ELSE FirstJobPositions(jobs, i + 1, kept)

\* C28: in clean_companies and clean_jobs the first occurrence of an
\* identity key wins: the returned list holds, in input order, the cleaned
\* form of exactly the input records that survive cleaning and have no
\* kept record with the same key before them; every later record with that
\* key is dropped.
C28_FirstOccurrenceWins ==
    /\ cl_pc = "companies_done" =>
          LET kept == FirstCompanyPositions(companies_in, 1, <<>>) IN
          companies_out =
              [k \in 1..Len(kept) |-> _clean_company(companies_in[kept[k]])[1]]
    /\ cl_pc = "jobs_done" =>
          LET kept == FirstJobPositions(jobs_in, 1, <<>>) IN
          jobs_out = [k \in 1..Len(kept) |-> _clean_job(jobs_in[kept[k]])[1]]

\* C29: cleaning is idempotent: a second pass of clean_companies
\* (clean_jobs) over the list the first pass returned returns that list,
\* with no record dropped or changed.
C29_CleaningIsIdempotent ==
    /\ cl_pc = "companies_done" =>
          clean_companies(companies_out) = companies_out
    /\ cl_pc = "jobs_done" => clean_jobs(jobs_out) = jobs_out

====
